---- MODULE Spec2Model ----
(***************************************************************************)
(* Model of the hush relay backend: the WebSocket connection registry and  *)
(* protocol handlers (services/websocket.py, routers/websocket.py), the    *)
(* group membership endpoints (routers/groups.py), the sliding-window      *)
(* rate guard, the authentication defense policy (services/defense.py,    *)
(* routers/auth.py) and the seen-based message expiry                      *)
(* (services/message_expiry.py).                                           *)
(***************************************************************************)
EXTENDS Integers, Sequences, FiniteSets, TLC

None == "none"
NoEpoch == -1
\* a timestamp column that is NULL
NoTime == -1
\* expires_after_seen_sec that is NULL
NoTtl == 0

\* ---- finite universes ---------------------------------------------------
WS == {"w1", "w2"}
Users == {"u1", "u2"}
\* table users: the users that hold sockets here, and one that holds none
Accounts == Users \cup {"u3"}
Convs == {"c1", "g1"}
GroupIds == {"g1"}
DirectIds == {"c1"}
Rest == {"r1", "r2"}
\* the task started by start_message_expiry_task
Workers == {"expiry"}
\* the same task in a second server process on the same database
SecondWorkers == {"expiry2"}
Tasks == WS \cup Rest \cup Workers \cup SecondWorkers
Roles == {"owner", "admin", "member"}
IPs == {"ip1", "ip2"}
ClientMessageIds == {None, "k1"}

\* websocket.state.user_id, fixed by the token the socket connected with
ws_user == [w \in WS |-> IF w = "w1" THEN "u1" ELSE "u2"]

\* ---- limits (security_limits.py), scaled down ---------------------------
MAX_WS_SUBSCRIPTIONS_PER_CONNECTION == 1
MAX_WS_MESSAGES_PER_WINDOW == 2
WS_RATE_WINDOW_SECONDS == 2

\* ---- security policy (config.py), scaled down; the clock counts minutes ---
MAX_AUTH_FAILURES == 2
IP_BLOCK_MINUTES == 2

\* ---- RateLimitConfig (middleware/rate_limit.py), scaled down -----------------
\* tokens are counted in fractions: TokenUnit of them make one token, and one tick
\* of the clock refills tokens_per_tick of them
burst_size == 2
TokenUnit == 2
tokens_per_tick == 1

\* ---- bounds of the exploration ------------------------------------------
MaxMessages == 1
MaxGroupOps == 2
MaxMemberChanges == 1
MaxClock == 3
MaxCalls == 4
MaxRecorded == 3
MaxLiveClock == 2
MaxBucketCalls == 4

VARIABLES
    connections,                \* WebSocketManager._connections
    conversation_subscriptions, \* WebSocketManager._conversation_subscriptions
    alive,                      \* the peer of the socket still accepts frames
    pc, frame, local,           \* position, inbound frame/request and locals of each task
    outbox,                     \* frames and responses emitted by the last step
    conversations,              \* table conversations: id -> kind
    conversation_participants,  \* table conversation_participants
    groups,                     \* table groups: id -> key_epoch
    group_members,              \* table group_members, rows with removed_at IS NULL
    messages,                   \* table messages
    message_user_state,         \* table message_user_state
    now,                        \* clock
    epoch_ops,                  \* history: committed membership changes per group
    epoch_returned,             \* history: epochs returned by those changes, in order
    rate_calls,                 \* history: the allow_incoming_message calls of each socket
    blocked_ips,                \* table blocked_ips: ip -> expiry
    auth_failures,              \* table auth_failures: ip -> failure_count
    settings,                   \* deployment settings (config.py)
    streak,                     \* history: failed attempts of the ip since its last success
    running,                    \* the server process has not exited
    legacy_threads,             \* the database still holds the table threads
    delivered,                  \* history: "message" envelopes handed to each socket
    buckets,                    \* RateLimiter._buckets: ip -> (last_update, tokens)
    bucket_calls                \* history: the is_allowed calls made for each ip

regVars == <<connections, conversation_subscriptions>>
taskVars == <<pc, frame, local>>
dbVars == <<conversations, conversation_participants, groups, group_members,
            messages, message_user_state>>
epochVars == <<epoch_ops, epoch_returned>>
histVars == <<epoch_ops, epoch_returned, delivered>>
processVars == <<running, legacy_threads>>
bucketVars == <<buckets, bucket_calls>>
defenseVars == <<blocked_ips, auth_failures, settings, streak, running, legacy_threads,
                 buckets, bucket_calls>>
auxVars == <<rate_calls, blocked_ips, auth_failures, settings, streak, running,
             legacy_threads, buckets, bucket_calls>>
vars == <<connections, conversation_subscriptions, alive, pc, frame, local, outbox,
          conversations, conversation_participants, groups, group_members, messages,
          message_user_state, now, epoch_ops, epoch_returned, rate_calls,
          blocked_ips, auth_failures, settings, streak, running, legacy_threads,
          delivered, buckets, bucket_calls>>

\* ---- small helpers -------------------------------------------------------
Drop(f, k) == [x \in DOMAIN f \ {k} |-> f[x]]
Put(f, k, v) == [x \in DOMAIN f \cup {k} |-> IF x = k THEN v ELSE f[x]]

NoFrame == [type |-> None, conversation_id |-> None, recipient_id |-> None,
            client_message_id |-> None, group_epoch |-> NoEpoch,
            expires_after_seen_sec |-> NoTtl, message_id |-> 0,
            actor |-> None, user_id |-> None, role |-> None, members |-> {}]
NoLocal == [epoch |-> NoEpoch, msg_id |-> 0, rows |-> {}, total |-> 0, slots |-> 0,
            count |-> 0, ttl |-> NoTtl, sender_id |-> None, seen_at |-> NoTime,
            all_seen |-> FALSE, bc_conv |-> None, bc_type |-> None,
            bc_pending |-> {}, bc_dead |-> << >>, bc_failed |-> {}, bc_ret |-> None,
            slots_before |-> 0, lock |-> FALSE]
NoSent == [to |-> None, type |-> None, code |-> None, message |-> None,
           conversation_id |-> None, client_message_id |-> None, id |-> 0,
           count |-> 0, epoch |-> NoEpoch, block |-> None]

\* ---- WebSocketManager (services/websocket.py) ----------------------------
Connection == [subscribed_conversations |-> {}, message_timestamps |-> << >>]

Registry == [connections |-> connections, subscriptions |-> conversation_subscriptions]

\* WebSocketManager._lock: the tasks inside an "async with self._lock" block
_lock == {t \in Tasks : local[t].lock}

\* the registry is read and written inside "async with self._lock"
SetRegistry(R) ==
    /\ _lock = {}
    /\ connections' = R.connections
    /\ conversation_subscriptions' = R.subscriptions

connect(R, ws) == [R EXCEPT !.connections = Put(R.connections, ws, Connection)]

\* variant: drops the connection and leaves the subscriber sets as they are
disconnect_registry_only(R, ws) ==
    IF ws \notin DOMAIN R.connections THEN R
    ELSE [R EXCEPT !.connections = Drop(R.connections, ws)]

\* variant: scrubs the socket but keeps the sets it emptied
disconnect_keeps_empty(R, ws) ==
    IF ws \notin DOMAIN R.connections THEN R
    ELSE LET own == R.connections[ws].subscribed_conversations
             touched == own \cap DOMAIN R.subscriptions
         IN [connections |-> Drop(R.connections, ws),
             subscriptions |->
                 [c \in DOMAIN R.subscriptions |->
                     IF c \in touched THEN R.subscriptions[c] \ {ws}
                     ELSE R.subscriptions[c]]]

disconnect(R, ws) ==
    IF ws \notin DOMAIN R.connections THEN R
    ELSE LET own == R.connections[ws].subscribed_conversations
             touched == own \cap DOMAIN R.subscriptions
             emptied == {c \in touched : R.subscriptions[c] \ {ws} = {}}
         IN [connections |-> Drop(R.connections, ws),
             subscriptions |->
                 [c \in DOMAIN R.subscriptions \ emptied |->
                     IF c \in touched THEN R.subscriptions[c] \ {ws}
                     ELSE R.subscriptions[c]]]

subscribe_to_conversation(R, ws, c) ==
    IF ws \notin DOMAIN R.connections THEN R
    ELSE [connections |->
              [R.connections EXCEPT ![ws].subscribed_conversations = @ \cup {c}],
          subscriptions |->
              Put(R.subscriptions, c,
                  (IF c \in DOMAIN R.subscriptions THEN R.subscriptions[c] ELSE {})
                      \cup {ws})]

\* variant: updates the connection's own set and forgets the index
unsubscribe_own_set_only(R, ws, c) ==
    IF ws \notin DOMAIN R.connections THEN R
    ELSE [R EXCEPT !.connections[ws].subscribed_conversations = @ \ {c}]

unsubscribe_from_conversation(R, ws, c) ==
    IF ws \notin DOMAIN R.connections THEN R
    ELSE [connections |->
              [R.connections EXCEPT ![ws].subscribed_conversations = @ \ {c}],
          subscriptions |->
              IF c \notin DOMAIN R.subscriptions THEN R.subscriptions
              ELSE IF R.subscriptions[c] \ {ws} = {} THEN Drop(R.subscriptions, c)
              ELSE [R.subscriptions EXCEPT ![c] = @ \ {ws}]]

is_subscribed_to_conversation(R, ws, c) ==
    /\ ws \in DOMAIN R.connections
    /\ c \in R.connections[ws].subscribed_conversations

get_subscription_count(R, ws) ==
    IF ws \notin DOMAIN R.connections THEN 0
    ELSE Cardinality(R.connections[ws].subscribed_conversations)

\* variant: a timestamp exactly window_seconds old is evicted too
expired_inclusive(stamp, cutoff) == stamp <= cutoff

\* message_timestamps[0] < cutoff
expired(stamp, cutoff) == stamp < cutoff

RECURSIVE EvictOld(_, _)
EvictOld(stamps, cutoff) ==
    IF stamps # << >> /\ expired(Head(stamps), cutoff) THEN EvictOld(Tail(stamps), cutoff)
    ELSE stamps

\* variant: the timestamp of a denied call is recorded as well
allow_counting_denied(R, ws, t, max_messages, window_seconds) ==
    IF ws \notin DOMAIN R.connections THEN [allowed |-> FALSE, registry |-> R]
    ELSE LET kept == EvictOld(R.connections[ws].message_timestamps, t - window_seconds)
         IN [allowed |-> Len(kept) < max_messages,
             registry |-> [R EXCEPT !.connections[ws].message_timestamps =
                               Append(kept, t)]]

\* allow_incoming_message: the verdict and the registry afterwards
allow_incoming_message(R, ws, t, max_messages, window_seconds) ==
    IF ws \notin DOMAIN R.connections THEN [allowed |-> FALSE, registry |-> R]
    ELSE LET kept == EvictOld(R.connections[ws].message_timestamps, t - window_seconds)
         IN IF Len(kept) >= max_messages
            THEN [allowed |-> FALSE,
                  registry |-> [R EXCEPT !.connections[ws].message_timestamps = kept]]
            ELSE [allowed |-> TRUE,
                  registry |-> [R EXCEPT !.connections[ws].message_timestamps =
                                    Append(kept, t)]]

\* every registered socket authenticated as the user
UserSockets(R, user) == {ws \in DOMAIN R.connections : ws_user[ws] = user}

RECURSIVE SubscribeAll(_, _, _)
SubscribeAll(R, sockets, c) ==
    IF sockets = {} THEN R
    ELSE LET ws == CHOOSE x \in sockets : TRUE
         IN SubscribeAll(subscribe_to_conversation(R, ws, c), sockets \ {ws}, c)

subscribe_user_connections_to_conversation(R, user, c) ==
    SubscribeAll(R, UserSockets(R, user), c)

\* send_to_user: the frames handed to the user's live sockets
send_to_user(R, user, msg) ==
    {[msg EXCEPT !.to = ws] : ws \in {x \in UserSockets(R, user) : alive[x]}}

\* variant: an error frame is delivered and the socket is unregistered after it
send_personal_closing(R, ws, msg) ==
    IF alive[ws] /\ msg.type # "error" THEN [registry |-> R, out |-> {[msg EXCEPT !.to = ws]}]
    ELSE [registry |-> disconnect(R, ws),
          out |-> IF alive[ws] THEN {[msg EXCEPT !.to = ws]} ELSE {}]

\* send_personal: deliver, or unregister the socket when the send raises
send_personal(R, ws, msg) ==
    IF alive[ws] THEN [registry |-> R, out |-> {[msg EXCEPT !.to = ws]}]
    ELSE [registry |-> disconnect(R, ws), out |-> {}]

Emit(S) ==
    /\ SetRegistry(S.registry)
    /\ outbox' = S.out

ErrorFrame(code, message, cmid) ==
    [NoSent EXCEPT !.type = "error", !.code = code, !.message = message,
                   !.client_message_id = cmid]

\* ---- authorization.py ----------------------------------------------------
is_conversation_participant(c, user) == <<c, user>> \in conversation_participants

\* variant: the conversation has to exist, its participants are not looked at
require_conversation_exists(c, user) ==
    IF c \notin DOMAIN conversations THEN "Conversation not found" ELSE "ok"

\* "ok", or the detail of the HTTPException raised
require_conversation_participant(c, user) ==
    IF c \notin DOMAIN conversations THEN "Conversation not found"
    ELSE IF ~is_conversation_participant(c, user)
         THEN "Forbidden: not a participant in this conversation"
         ELSE "ok"

is_group_member(g, user) == <<g, user>> \in DOMAIN group_members

require_group_member(g, user) ==
    IF g \notin DOMAIN groups THEN "Group not found"
    ELSE IF ~is_group_member(g, user) THEN "Forbidden: not a member of this group"
    ELSE "ok"

require_group_admin(g, user) ==
    IF require_group_member(g, user) # "ok" THEN require_group_member(g, user)
    ELSE IF group_members[<<g, user>>] \notin {"owner", "admin"}
         THEN "Forbidden: admin access required"
         ELSE "ok"

\* ---- task bookkeeping ----------------------------------------------------
Rest0(t) ==
    IF t \in WS THEN "recv"
    ELSE IF t \in Workers \cup SecondWorkers THEN "sleep" ELSE "idle"

Return(t) ==
    /\ pc' = [pc EXCEPT ![t] = Rest0(t)]
    /\ frame' = [frame EXCEPT ![t] = NoFrame]
    /\ local' = [local EXCEPT ![t] = NoLocal]

Continue(t, label, f, l) ==
    /\ pc' = [pc EXCEPT ![t] = label]
    /\ frame' = [frame EXCEPT ![t] = f]
    /\ local' = [local EXCEPT ![t] = l]

Ready(w) == pc[w] = "recv" /\ alive[w]

\* ---- websocket_endpoint (routers/websocket.py) ---------------------------
Connect(w) ==
    /\ pc[w] = "new"
    /\ SetRegistry(connect(Registry, w))
    /\ alive' = [alive EXCEPT ![w] = TRUE]
    /\ pc' = [pc EXCEPT ![w] = "recv"]
    /\ outbox' = {}
    /\ UNCHANGED <<frame, local, dbVars, now, histVars, auxVars>>

\* the peer goes away: later sends to it raise, its pending receive raises
PeerGone(w) ==
    /\ pc[w] \notin {"new", "closed"}
    /\ alive[w]
    /\ alive' = [alive EXCEPT ![w] = FALSE]
    /\ outbox' = {}
    /\ UNCHANGED <<regVars, taskVars, dbVars, now, histVars, auxVars>>

\* receive_json raises WebSocketDisconnect and the finally block unregisters
ReceiveDisconnect(w) ==
    /\ pc[w] = "recv"
    /\ ~alive[w]
    /\ SetRegistry(disconnect(Registry, w))
    /\ pc' = [pc EXCEPT ![w] = "closed"]
    /\ outbox' = {}
    /\ UNCHANGED <<alive, frame, local, dbVars, now, histVars, auxVars>>

\* a frame whose type the endpoint does not know
HandleUnknown(w) ==
    /\ Ready(w)
    /\ Emit(send_personal(Registry, w, ErrorFrame(None, "Unknown message type", None)))
    /\ UNCHANGED <<alive, taskVars, dbVars, now, histVars, auxVars>>

SubscribeFrames == {[NoFrame EXCEPT !.type = "subscribe", !.conversation_id = c] : c \in Convs}
UnsubscribeFrames ==
    {[NoFrame EXCEPT !.type = "unsubscribe", !.conversation_id = c] : c \in Convs}
SubscribeUserFrame == [NoFrame EXCEPT !.type = "subscribe_user"]

\* ---- handle_subscribe ----------------------------------------------------
\* receive a subscribe frame and run the cap check
HandleSubscribe(w, f) ==
    /\ Ready(w)
    /\ LET c == f.conversation_id
           over == /\ ~is_subscribed_to_conversation(Registry, w, c)
                   /\ get_subscription_count(Registry, w)
                          >= MAX_WS_SUBSCRIPTIONS_PER_CONNECTION
       IN IF over
          THEN /\ Emit(send_personal(Registry, w,
                      ErrorFrame(None, "subscription_limit_reached", None)))
               /\ Return(w)
          ELSE /\ Continue(w, "sub_auth", f, NoLocal)
               /\ outbox' = {}
               /\ UNCHANGED regVars
    /\ UNCHANGED <<alive, dbVars, now, histVars, auxVars>>

SubAuth(w) ==
    /\ pc[w] = "sub_auth"
    /\ LET verdict == require_conversation_participant(frame[w].conversation_id, ws_user[w])
       IN IF verdict # "ok"
          THEN /\ Emit(send_personal(Registry, w, ErrorFrame(None, verdict, None)))
               /\ Return(w)
          ELSE /\ pc' = [pc EXCEPT ![w] = "sub_do"]
               /\ outbox' = {}
               /\ UNCHANGED <<regVars, frame, local>>
    /\ UNCHANGED <<alive, dbVars, now, histVars, auxVars>>

SubDo(w) ==
    /\ pc[w] = "sub_do"
    /\ LET c == frame[w].conversation_id
       IN Emit(send_personal(subscribe_to_conversation(Registry, w, c), w,
                  [NoSent EXCEPT !.type = "subscribed", !.conversation_id = c]))
    /\ Return(w)
    /\ UNCHANGED <<alive, dbVars, now, histVars, auxVars>>

\* ---- handle_unsubscribe --------------------------------------------------
HandleUnsubscribe(w, f) ==
    /\ Ready(w)
    /\ LET c == f.conversation_id
       IN Emit(send_personal(unsubscribe_from_conversation(Registry, w, c), w,
                  [NoSent EXCEPT !.type = "unsubscribed", !.conversation_id = c]))
    /\ UNCHANGED <<alive, taskVars, dbVars, now, histVars, auxVars>>

\* ---- handle_subscribe_user -----------------------------------------------
HandleSubscribeUser(w) ==
    /\ Ready(w)
    /\ LET rows == {c \in Convs : <<c, ws_user[w]>> \in conversation_participants}
           slots == MAX_WS_SUBSCRIPTIONS_PER_CONNECTION
                        - get_subscription_count(Registry, w)
       IN IF slots <= 0
          THEN /\ Emit(send_personal(Registry, w,
                      ErrorFrame(None, "subscription_limit_reached", None)))
               /\ Return(w)
          ELSE /\ Continue(w, "su_loop", SubscribeUserFrame,
                      [NoLocal EXCEPT !.rows = rows, !.total = Cardinality(rows),
                                      !.slots = slots])
               /\ outbox' = {}
               /\ UNCHANGED regVars
    /\ UNCHANGED <<alive, dbVars, now, histVars, auxVars>>

\* one iteration of the loop over the rows, in whatever order the query gave them
SubUserLoop(w) ==
    /\ pc[w] = "su_loop"
    /\ local[w].rows # {}
    /\ local[w].count < local[w].slots
    /\ \E c \in local[w].rows :
         IF is_subscribed_to_conversation(Registry, w, c)
         THEN /\ local' = [local EXCEPT ![w].rows = @ \ {c}]
              /\ UNCHANGED regVars
         ELSE /\ SetRegistry(subscribe_to_conversation(Registry, w, c))
              /\ local' = [local EXCEPT ![w].rows = @ \ {c}, ![w].count = @ + 1]
    /\ outbox' = {}
    /\ UNCHANGED <<alive, pc, frame, dbVars, now, histVars, auxVars>>

\* the loop is over: user_subscribed, then the error frame when rows were left out
SubUserDone(w) ==
    /\ pc[w] = "su_loop"
    /\ local[w].rows = {} \/ local[w].count >= local[w].slots
    /\ LET ok == [NoSent EXCEPT !.type = "user_subscribed", !.count = local[w].count]
           err == ErrorFrame(None, "subscription_limit_reached", None)
           S1 == send_personal(Registry, w, ok)
           S2 == send_personal(S1.registry, w, err)
       IN IF local[w].count < local[w].total
          THEN /\ SetRegistry(S2.registry)
               /\ outbox' = S1.out \cup S2.out
          ELSE Emit(S1)
    /\ Return(w)
    /\ UNCHANGED <<alive, dbVars, now, histVars, auxVars>>

\* ---- broadcast_to_conversation, one step per await ------------------------
StartBroadcast(l, c, type, ret) ==
    [l EXCEPT !.bc_conv = c, !.bc_type = type, !.bc_pending = {},
              !.bc_dead = << >>, !.bc_failed = {}, !.bc_ret = ret]

BroadcastFrame(t) ==
    [NoSent EXCEPT !.type = local[t].bc_type,
                   !.conversation_id = local[t].bc_conv,
                   !.id = local[t].msg_id,
                   !.epoch = local[t].epoch,
                   !.client_message_id = frame[t].client_message_id]

\* the caller resumes after the broadcast returned
AfterBroadcast(t, l) ==
    IF l.bc_ret = "done" THEN Return(t)
    ELSE IF l.bc_ret = "rotate"
    THEN /\ pc' = [pc EXCEPT ![t] = "bc_snapshot"]
         /\ local' = [local EXCEPT ![t] =
                         StartBroadcast(l, l.bc_conv, "group_key_rotated", "done")]
         /\ UNCHANGED frame
    ELSE /\ pc' = [pc EXCEPT ![t] = l.bc_ret]
         /\ local' = [local EXCEPT ![t] = l]
         /\ UNCHANGED frame

\* variant: the sends run inside the "async with" block
snapshot_keeps_lock(subscribers) == TRUE

\* the "async with" block ends with the copy: the lock is released before any send
snapshot_release(subscribers) == FALSE

\* copy of the subscriber set, taken under the lock
BcSnapshot(t) ==
    /\ pc[t] = "bc_snapshot"
    /\ _lock = {}
    /\ LET c == local[t].bc_conv
           subscribers == IF c \in DOMAIN conversation_subscriptions
                          THEN conversation_subscriptions[c] ELSE {}
       IN IF subscribers = {}
          THEN AfterBroadcast(t, local[t])
          ELSE /\ pc' = [pc EXCEPT ![t] = "bc_send"]
               /\ local' = [local EXCEPT ![t].bc_pending = subscribers,
                                         ![t].lock = snapshot_release(subscribers)]
               /\ UNCHANGED frame
    /\ outbox' = {}
    /\ UNCHANGED <<regVars, alive, dbVars, now, histVars, auxVars>>

\* how many times the socket was handed the envelope of the message
Received(ws, id) == IF id \in DOMAIN delivered[ws] THEN delivered[ws][id] ELSE 0

\* one send of the loop over the snapshot, outside the lock
BcSend(t, ws) ==
    /\ pc[t] = "bc_send"
    /\ ws \in local[t].bc_pending
    /\ LET raised == pc[ws] # "closed" /\ ~alive[ws]
           l == [local[t] EXCEPT !.bc_pending = @ \ {ws},
                                 !.bc_dead = IF raised THEN Append(@, ws) ELSE @,
                                 !.bc_failed = IF raised THEN @ \cup {ws} ELSE @]
           sent == pc[ws] # "closed" /\ alive[ws]
       IN /\ outbox' = IF sent THEN {[BroadcastFrame(t) EXCEPT !.to = ws]} ELSE {}
          /\ delivered' = IF sent /\ local[t].bc_type = "message"
                          THEN [delivered EXCEPT ![ws] =
                                   Put(@, local[t].msg_id, Received(ws, local[t].msg_id) + 1)]
                          ELSE delivered
          /\ IF l.bc_pending # {}
             THEN local' = [local EXCEPT ![t] = l] /\ UNCHANGED <<pc, frame>>
             ELSE IF l.bc_dead # << >>
             THEN /\ pc' = [pc EXCEPT ![t] = "bc_cleanup"]
                  /\ local' = [local EXCEPT ![t] = l]
                  /\ UNCHANGED frame
             ELSE AfterBroadcast(t, l)
    /\ UNCHANGED <<regVars, alive, dbVars, now, epochVars, auxVars>>

\* disconnect() of the next socket whose send raised
BcCleanup(t) ==
    /\ pc[t] = "bc_cleanup"
    /\ LET l == [local[t] EXCEPT !.bc_dead = Tail(@)]
       IN /\ SetRegistry(disconnect(Registry, Head(local[t].bc_dead)))
          /\ IF l.bc_dead # << >>
             THEN local' = [local EXCEPT ![t] = l] /\ UNCHANGED <<pc, frame>>
             ELSE AfterBroadcast(t, l)
    /\ outbox' = {}
    /\ UNCHANGED <<alive, dbVars, now, histVars, auxVars>>

\* ---- handle_message ------------------------------------------------------
EpochInputs == {NoEpoch, 0, 1, 2}

\* the lifetimes a message may ask for ({15, 30, 60} seconds), scaled to clock ticks
AllowedTtls == {1, 2}

MessageFrames ==
    {[NoFrame EXCEPT !.type = "message", !.conversation_id = c, !.recipient_id = r,
                     !.client_message_id = k, !.group_epoch = e] :
        c \in Convs, r \in Users \cup {None}, k \in ClientMessageIds, e \in EpochInputs}

\* history: the slots of the rate window the socket had used when the frame came in
SlotsUsed(R, ws, t) ==
    IF ws \notin DOMAIN R.connections THEN 0
    ELSE Len(EvictOld(R.connections[ws].message_timestamps, t - WS_RATE_WINDOW_SECONDS))

\* receive a message frame: field validation, then the rate guard
HandleMessage(w, f) ==
    /\ Ready(w)
    /\ LET cmid == f.client_message_id
           guard == allow_incoming_message(Registry, w, now,
                        MAX_WS_MESSAGES_PER_WINDOW, WS_RATE_WINDOW_SECONDS)
       IN IF f.group_epoch # NoEpoch /\ f.group_epoch < 1
          THEN /\ Emit(send_personal(Registry, w,
                      ErrorFrame("invalid_group_epoch", "Invalid group_epoch", cmid)))
               /\ Return(w)
          ELSE IF f.expires_after_seen_sec \notin {NoTtl} \cup AllowedTtls
          THEN /\ Emit(send_personal(Registry, w,
                      ErrorFrame("invalid_expires_after_seen",
                                 "Invalid expires_after_seen_sec", cmid)))
               /\ Return(w)
          ELSE IF ~guard.allowed
          THEN /\ Emit(send_personal(guard.registry, w,
                      ErrorFrame("rate_limited", "rate_limited", cmid)))
               /\ Return(w)
          ELSE /\ SetRegistry(guard.registry)
               /\ outbox' = {}
               /\ Continue(w, "msg_authz", f,
                      [NoLocal EXCEPT !.epoch = f.group_epoch,
                                      !.slots_before = SlotsUsed(Registry, w, now)])
    /\ UNCHANGED <<alive, dbVars, now, histVars, auxVars>>

\* variant: the insert names the sender alone
first_contact_sender_only(c, u, r) == {<<c, u>>}

\* INSERT INTO conversation_participants ... VALUES ($1, $2), ($1, $3)
first_contact_participants(c, u, r) == {<<c, u>>, <<c, r>>}

\* participant check, and the first-contact insert when a recipient is named
MsgAuthz(w) ==
    /\ pc[w] = "msg_authz"
    /\ LET c == frame[w].conversation_id
           u == ws_user[w]
           r == frame[w].recipient_id
           cmid == frame[w].client_message_id
           detail == require_conversation_participant(c, u)
       IN IF is_conversation_participant(c, u)
          THEN /\ pc' = [pc EXCEPT ![w] = "msg_epoch"]
               /\ outbox' = {}
               /\ UNCHANGED <<regVars, frame, local, conversations,
                              conversation_participants>>
          ELSE IF r = None
          THEN /\ Emit(send_personal(Registry, w,
                      ErrorFrame(IF detail = "Conversation not found"
                                 THEN "conversation_not_found" ELSE "forbidden",
                                 detail, cmid)))
               /\ Return(w)
               /\ UNCHANGED <<conversations, conversation_participants>>
          ELSE /\ conversations' = IF c \in DOMAIN conversations THEN conversations
                                   ELSE Put(conversations, c, "direct")
               /\ conversation_participants' =
                      conversation_participants \cup first_contact_participants(c, u, r)
               /\ pc' = [pc EXCEPT ![w] = "msg_epoch"]
               /\ outbox' = {}
               /\ UNCHANGED <<regVars, frame, local>>
    /\ UNCHANGED <<alive, groups, group_members, messages, message_user_state, now,
                   histVars, auxVars>>

\* variant: only an epoch ahead of the group's is refused
epoch_ahead(current_epoch, normalized_group_epoch) ==
    normalized_group_epoch > current_epoch

\* int(current_epoch) != int(normalized_group_epoch)
stale_group_epoch(current_epoch, normalized_group_epoch) ==
    current_epoch # normalized_group_epoch

\* the group epoch check-and-stamp
MsgEpoch(w) ==
    /\ pc[w] = "msg_epoch"
    /\ LET c == frame[w].conversation_id
           cmid == frame[w].client_message_id
           kind == IF c \in DOMAIN conversations THEN conversations[c] ELSE None
           current == IF c \in DOMAIN groups THEN groups[c] ELSE 0
       IN IF kind # "group"
          THEN /\ pc' = [pc EXCEPT ![w] = "msg_insert"]
               /\ outbox' = {}
               /\ UNCHANGED <<regVars, frame, local>>
          ELSE IF current = 0
          THEN /\ Emit(send_personal(Registry, w,
                      ErrorFrame("group_not_found", "Group not found", cmid)))
               /\ Return(w)
          ELSE IF local[w].epoch = NoEpoch
          THEN /\ pc' = [pc EXCEPT ![w] = "msg_insert"]
               /\ local' = [local EXCEPT ![w].epoch = current]
               /\ outbox' = {}
               /\ UNCHANGED <<regVars, frame>>
          ELSE IF stale_group_epoch(current, local[w].epoch)
          THEN /\ Emit(send_personal(Registry, w,
                      ErrorFrame("stale_group_epoch", "stale_group_epoch", cmid)))
               /\ Return(w)
          ELSE /\ pc' = [pc EXCEPT ![w] = "msg_insert"]
               /\ outbox' = {}
               /\ UNCHANGED <<regVars, frame, local>>
    /\ UNCHANGED <<alive, dbVars, now, histVars, auxVars>>

\* INSERT INTO messages ... RETURNING id
MsgInsert(w) ==
    /\ pc[w] = "msg_insert"
    /\ LET id == Cardinality(messages) + 1
       IN /\ messages' = messages \cup
                 {[id |-> id, conversation_id |-> frame[w].conversation_id,
                   sender_id |-> ws_user[w], group_epoch |-> local[w].epoch,
                   expires_after_seen_sec |-> frame[w].expires_after_seen_sec,
                   sender_delete_after_seen_at |-> NoTime,
                   sender_deleted_at |-> NoTime]}
          /\ local' = [local EXCEPT ![w].msg_id = id]
    /\ pc' = [pc EXCEPT ![w] = "msg_states"]
    /\ outbox' = {}
    /\ UNCHANGED <<regVars, alive, frame, conversations, conversation_participants,
                   groups, group_members, message_user_state, now, histVars, auxVars>>

\* one message_user_state row per participant found now
MsgStates(w) ==
    /\ pc[w] = "msg_states"
    /\ LET c == frame[w].conversation_id
       IN message_user_state' = message_user_state \cup
              {[message_id |-> local[w].msg_id, user_id |-> u,
                is_sender |-> (u = ws_user[w]), seen_at |-> NoTime,
                delete_after_seen_at |-> NoTime, deleted_at |-> NoTime] :
                  u \in {x \in Accounts : <<c, x>> \in conversation_participants}}
    /\ pc' = [pc EXCEPT ![w] = "msg_subs"]
    /\ outbox' = {}
    /\ UNCHANGED <<regVars, alive, frame, local, conversations, conversation_participants,
                   groups, group_members, messages, now, histVars, auxVars>>

\* auto-subscription of the sender's and the recipient's sockets
MsgSubs(w) ==
    /\ pc[w] = "msg_subs"
    /\ LET c == frame[w].conversation_id
           r == frame[w].recipient_id
           R1 == subscribe_user_connections_to_conversation(Registry, ws_user[w], c)
           R2 == IF r = None THEN R1
                 ELSE subscribe_user_connections_to_conversation(R1, r, c)
       IN /\ SetRegistry(R2)
          /\ local' = [local EXCEPT ![w] = StartBroadcast(@, c, "message",
                          IF frame[w].client_message_id = None THEN "done"
                          ELSE "msg_ack")]
    /\ pc' = [pc EXCEPT ![w] = "bc_snapshot"]
    /\ outbox' = {}
    /\ UNCHANGED <<alive, frame, dbVars, now, histVars, auxVars>>

\* a statement of the persistence block raises (except Exception): what earlier
\* statements wrote stays written, the sender is told message_persist_failed
MsgPersistFail(w) ==
    /\ pc[w] \in {"msg_authz", "msg_epoch", "msg_insert", "msg_states"}
    /\ Emit(send_personal(Registry, w,
           ErrorFrame("message_persist_failed", "Failed to save message",
                      frame[w].client_message_id)))
    /\ Return(w)
    /\ UNCHANGED <<alive, dbVars, now, histVars, auxVars>>

\* the explicit message_sent ack
MsgAck(w) ==
    /\ pc[w] = "msg_ack"
    /\ Emit(send_personal(Registry, w,
           [NoSent EXCEPT !.type = "message_sent", !.id = local[w].msg_id,
                          !.conversation_id = frame[w].conversation_id,
                          !.client_message_id = frame[w].client_message_id]))
    /\ Return(w)
    /\ UNCHANGED <<alive, dbVars, now, histVars, auxVars>>

\* ---- handle_message_seen ---------------------------------------------------
SeenFrames ==
    {[NoFrame EXCEPT !.type = "message_seen", !.message_id = id, !.conversation_id = c] :
        id \in {1, 2}, c \in GroupIds}

SeenError(code, message) == ErrorFrame(code, message, None)

\* the message_user_state rows of the message that belong to its recipients
RecipientStates(id) ==
    {r \in message_user_state : r.message_id = id /\ ~r.is_sender}

\* receive a message_seen frame; the participant check
HandleMessageSeen(w, f) ==
    /\ Ready(w)
    /\ LET detail == require_conversation_participant(f.conversation_id, ws_user[w])
       IN IF detail # "ok"
          THEN /\ Emit(send_personal(Registry, w, SeenError("forbidden", detail)))
               /\ Return(w)
          ELSE /\ Continue(w, "seen_fetch", f, NoLocal)
               /\ outbox' = {}
               /\ UNCHANGED regVars
    /\ UNCHANGED <<alive, dbVars, now, histVars, auxVars>>

\* SELECT id, sender_id, expires_after_seen_sec FROM messages; the sender is refused
SeenFetch(w) ==
    /\ pc[w] = "seen_fetch"
    /\ LET found == {m \in messages : /\ m.id = frame[w].message_id
                                      /\ m.conversation_id = frame[w].conversation_id}
       IN IF found = {}
          THEN /\ Emit(send_personal(Registry, w,
                      SeenError("message_not_found", "Message not found")))
               /\ Return(w)
          ELSE LET message_row == CHOOSE m \in found : TRUE
               IN IF message_row.sender_id = ws_user[w]
                  THEN /\ Emit(send_personal(Registry, w,
                              SeenError("invalid_seen_actor",
                                        "Sender cannot mark own message as seen")))
                       /\ Return(w)
                  ELSE /\ local' = [local EXCEPT ![w].msg_id = message_row.id,
                                                 ![w].sender_id = message_row.sender_id,
                                                 ![w].ttl = message_row.expires_after_seen_sec]
                       /\ pc' = [pc EXCEPT ![w] = "seen_mark"]
                       /\ outbox' = {}
                       /\ UNCHANGED <<regVars, frame>>
    /\ UNCHANGED <<alive, dbVars, now, histVars, auxVars>>

\* variant: the column takes the new value whatever it held
coalesce_overwrite(stored, value) == value

\* COALESCE(column, value): the stored value when there is one
COALESCE(stored, value) == IF stored # NoTime THEN stored ELSE value

\* UPDATE message_user_state SET seen_at = COALESCE(seen_at, NOW()) ... RETURNING seen_at
SeenMark(w) ==
    /\ pc[w] = "seen_mark"
    /\ LET mine == {r \in RecipientStates(local[w].msg_id) : r.user_id = ws_user[w]}
           stamp(r) == COALESCE(r.seen_at, now)
       IN IF mine = {}
          THEN /\ Emit(send_personal(Registry, w,
                      SeenError("message_state_missing", "Message state not found")))
               /\ Return(w)
               /\ UNCHANGED message_user_state
          ELSE /\ message_user_state' =
                      {IF r \in mine THEN [r EXCEPT !.seen_at = stamp(r)] ELSE r :
                          r \in message_user_state}
               /\ local' = [local EXCEPT ![w].seen_at = stamp(CHOOSE r \in mine : TRUE)]
               /\ pc' = [pc EXCEPT ![w] = IF local[w].ttl # NoTtl THEN "seen_deadline"
                                          ELSE "seen_aggregate"]
               /\ outbox' = {}
               /\ UNCHANGED <<regVars, frame>>
    /\ UNCHANGED <<alive, conversations, conversation_participants, groups, group_members,
                   messages, now, histVars, auxVars>>

\* UPDATE message_user_state SET delete_after_seen_at =
\*     COALESCE(delete_after_seen_at, seen_at + ttl) for the row of the user
SeenDeadline(w) ==
    /\ pc[w] = "seen_deadline"
    /\ message_user_state' =
           {IF r.message_id = local[w].msg_id /\ r.user_id = ws_user[w]
            THEN [r EXCEPT !.delete_after_seen_at =
                      COALESCE(@, IF r.seen_at = NoTime THEN NoTime
                                  ELSE r.seen_at + local[w].ttl)]
            ELSE r : r \in message_user_state}
    /\ pc' = [pc EXCEPT ![w] = "seen_all"]
    /\ outbox' = {}
    /\ UNCHANGED <<regVars, alive, frame, local, conversations, conversation_participants,
                   groups, group_members, messages, now, histVars, auxVars>>

\* SELECT NOT EXISTS (a recipient row with seen_at IS NULL)
SeenAllSeen(w) ==
    /\ pc[w] = "seen_all"
    /\ LET all_seen == \A r \in RecipientStates(local[w].msg_id) : r.seen_at # NoTime
       IN /\ local' = [local EXCEPT ![w].all_seen = all_seen]
          /\ pc' = [pc EXCEPT ![w] = IF all_seen THEN "seen_sender" ELSE "seen_aggregate"]
    /\ outbox' = {}
    /\ UNCHANGED <<regVars, alive, frame, dbVars, now, histVars, auxVars>>

\* variant: the earliest time a recipient saw the message
min_seen_at(times) ==
    IF times = {} THEN NoTime ELSE CHOOSE t \in times : \A o \in times : t <= o

\* SELECT MAX(seen_at): the latest of the times, NULL when there is none
max_seen_at(times) ==
    IF times = {} THEN NoTime ELSE CHOOSE t \in times : \A o \in times : o <= t

\* UPDATE messages SET sender_delete_after_seen_at =
\*     COALESCE(sender_delete_after_seen_at, MAX(seen_at) + ttl)
SeenSender(w) ==
    /\ pc[w] = "seen_sender"
    /\ LET id == local[w].msg_id
           last == max_seen_at({r.seen_at : r \in {x \in RecipientStates(id) :
                                                     x.seen_at # NoTime}})
       IN messages' =
              {IF m.id = id
               THEN [m EXCEPT !.sender_delete_after_seen_at =
                         COALESCE(@, IF last = NoTime THEN NoTime
                                     ELSE last + local[w].ttl)]
               ELSE m : m \in messages}
    /\ pc' = [pc EXCEPT ![w] = "seen_aggregate"]
    /\ outbox' = {}
    /\ UNCHANGED <<regVars, alive, frame, local, conversations, conversation_participants,
                   groups, group_members, message_user_state, now, histVars, auxVars>>

\* the aggregate for the event, then the broadcast of message_seen
SeenAggregate(w) ==
    /\ pc[w] = "seen_aggregate"
    /\ local' = [local EXCEPT ![w] =
                    StartBroadcast(@, frame[w].conversation_id, "message_seen",
                                   "seen_notify")]
    /\ pc' = [pc EXCEPT ![w] = "bc_snapshot"]
    /\ outbox' = {}
    /\ UNCHANGED <<regVars, alive, frame, dbVars, now, histVars, auxVars>>

\* the same event sent to the sockets of the sender
SeenNotify(w) ==
    /\ pc[w] = "seen_notify"
    /\ outbox' = send_to_user(Registry, local[w].sender_id,
                      [NoSent EXCEPT !.type = "message_seen", !.id = local[w].msg_id,
                                     !.conversation_id = frame[w].conversation_id])
    /\ Return(w)
    /\ UNCHANGED <<regVars, alive, dbVars, now, histVars, auxVars>>

\* ---- routers/groups.py ---------------------------------------------------
\* variant: the update leaves the epoch as it was
key_epoch_kept(key_epoch) == key_epoch

\* UPDATE groups SET key_epoch = key_epoch + 1 ... RETURNING key_epoch
key_epoch_update(key_epoch) == key_epoch + 1

HttpResponse(r, status, detail) ==
    [NoSent EXCEPT !.to = r, !.type = "http", !.code = status, !.message = detail]

AuthzStatus(detail) == IF detail = "Group not found" THEN "404" ELSE "403"

owner_count(g) ==
    Cardinality({u \in Accounts : <<g, u>> \in DOMAIN group_members
                               /\ group_members[<<g, u>>] = "owner"})

\* create_group: the transaction
CreateGroup(r, g, owner, member_ids) ==
    /\ pc[r] = "idle"
    /\ g \notin DOMAIN conversations
    /\ conversations' = Put(conversations, g, "group")
    /\ groups' = Put(groups, g, 1)
    /\ conversation_participants' =
           conversation_participants \cup {<<g, u>> : u \in {owner} \cup member_ids}
    /\ group_members' =
           [k \in DOMAIN group_members \cup {<<g, u>> : u \in {owner} \cup member_ids} |->
               IF k = <<g, owner>> THEN "owner"
               ELSE IF k[1] = g /\ k[2] \in member_ids THEN "member"
               ELSE group_members[k]]
    /\ Continue(r, "bc_snapshot",
           [NoFrame EXCEPT !.type = "create_group", !.conversation_id = g,
                           !.actor = owner, !.members = member_ids \ {owner}],
           [StartBroadcast(NoLocal, g, "group_created", "grp_members")
               EXCEPT !.epoch = 1])
    /\ outbox' = {}
    /\ UNCHANGED <<regVars, alive, messages, message_user_state, now, histVars, auxVars>>

\* create_group: subscribe and notify the sockets of the initial members
GroupMembersNotify(r) ==
    /\ pc[r] = "grp_members"
    /\ LET g == frame[r].conversation_id
           RECURSIVE Sub(_, _)
           Sub(R, ms) == IF ms = {} THEN R
                         ELSE LET m == CHOOSE x \in ms : TRUE
                              IN Sub(subscribe_user_connections_to_conversation(R, m, g),
                                     ms \ {m})
           R1 == Sub(Registry, frame[r].members)
       IN /\ SetRegistry(R1)
          /\ outbox' = UNION {send_to_user(R1, m,
                                 [NoSent EXCEPT !.type = "group_created",
                                                !.conversation_id = g, !.epoch = 1]) :
                              m \in frame[r].members}
    /\ Return(r)
    /\ UNCHANGED <<alive, dbVars, now, histVars, auxVars>>

\* add_group_member: admin check and last-owner guard
AddGroupMember(r, g, actor, target, role) ==
    /\ pc[r] = "idle"
    /\ LET detail == require_group_admin(g, actor)
           existing_role == IF <<g, target>> \in DOMAIN group_members
                            THEN group_members[<<g, target>>] ELSE None
       IN IF detail # "ok"
          THEN /\ outbox' = {HttpResponse(r, AuthzStatus(detail), detail)}
               /\ UNCHANGED taskVars
          ELSE IF existing_role = "owner" /\ role # "owner" /\ owner_count(g) <= 1
          THEN /\ outbox' = {HttpResponse(r, "400", "Cannot demote the last owner")}
               /\ UNCHANGED taskVars
          ELSE /\ Continue(r, "add_txn",
                      [NoFrame EXCEPT !.type = "add_group_member", !.conversation_id = g,
                                      !.actor = actor, !.user_id = target, !.role = role],
                      NoLocal)
               /\ outbox' = {}
    /\ UNCHANGED <<regVars, alive, dbVars, now, histVars, auxVars>>

\* add_group_member: the transaction (participant, member row, epoch increment)
AddGroupMemberTxn(r) ==
    /\ pc[r] = "add_txn"
    /\ LET g == frame[r].conversation_id
           new_epoch == key_epoch_update(groups[g])
       IN /\ conversation_participants' =
                 conversation_participants \cup {<<g, frame[r].user_id>>}
          /\ group_members' = Put(group_members, <<g, frame[r].user_id>>, frame[r].role)
          /\ groups' = [groups EXCEPT ![g] = new_epoch]
          /\ epoch_ops' = [epoch_ops EXCEPT ![g] = @ + 1]
          /\ epoch_returned' = [epoch_returned EXCEPT ![g] = Append(@, new_epoch)]
          /\ local' = [local EXCEPT ![r] =
                 [StartBroadcast(@, g, "group_member_added", "add_sub")
                     EXCEPT !.epoch = new_epoch]]
    /\ pc' = [pc EXCEPT ![r] = "bc_snapshot"]
    /\ outbox' = {}
    /\ UNCHANGED <<regVars, alive, frame, conversations, messages, message_user_state, now,
                   delivered, auxVars>>

\* add_group_member: subscribe and notify the new member, then announce the rotation
AddGroupMemberNotify(r) ==
    /\ pc[r] = "add_sub"
    /\ LET g == frame[r].conversation_id
           R1 == subscribe_user_connections_to_conversation(Registry, frame[r].user_id, g)
       IN /\ SetRegistry(R1)
          /\ outbox' = send_to_user(R1, frame[r].user_id,
                           [NoSent EXCEPT !.type = "group_created", !.conversation_id = g,
                                          !.epoch = local[r].epoch])
          /\ local' = [local EXCEPT ![r] =
                          StartBroadcast(@, g, "group_key_rotated", "done")]
    /\ pc' = [pc EXCEPT ![r] = "bc_snapshot"]
    /\ UNCHANGED <<alive, frame, dbVars, now, histVars, auxVars>>

\* remove_group_member: admin check and last-owner guard
RemoveGroupMember(r, g, actor, member_id) ==
    /\ pc[r] = "idle"
    /\ LET detail == require_group_admin(g, actor)
       IN IF detail # "ok"
          THEN /\ outbox' = {HttpResponse(r, AuthzStatus(detail), detail)}
               /\ UNCHANGED taskVars
          ELSE IF member_id = actor /\ owner_count(g) <= 1
          THEN /\ outbox' = {HttpResponse(r, "400", "Cannot remove the last owner")}
               /\ UNCHANGED taskVars
          ELSE /\ Continue(r, "rm_txn",
                      [NoFrame EXCEPT !.type = "remove_group_member",
                                      !.conversation_id = g, !.actor = actor,
                                      !.user_id = member_id],
                      NoLocal)
               /\ outbox' = {}
    /\ UNCHANGED <<regVars, alive, dbVars, now, histVars, auxVars>>

\* remove_group_member: the transaction (member row, participant, epoch increment)
RemoveGroupMemberTxn(r) ==
    /\ pc[r] = "rm_txn"
    /\ LET g == frame[r].conversation_id
           new_epoch == key_epoch_update(groups[g])
       IN /\ group_members' = Drop(group_members, <<g, frame[r].user_id>>)
          /\ conversation_participants' =
                 conversation_participants \ {<<g, frame[r].user_id>>}
          /\ groups' = [groups EXCEPT ![g] = new_epoch]
          /\ epoch_ops' = [epoch_ops EXCEPT ![g] = @ + 1]
          /\ epoch_returned' = [epoch_returned EXCEPT ![g] = Append(@, new_epoch)]
          /\ local' = [local EXCEPT ![r] =
                 [StartBroadcast(@, g, "group_member_removed", "rotate")
                     EXCEPT !.epoch = new_epoch]]
    /\ pc' = [pc EXCEPT ![r] = "bc_snapshot"]
    /\ outbox' = {}
    /\ UNCHANGED <<regVars, alive, frame, conversations, messages, message_user_state, now,
                   delivered, auxVars>>

\* the transaction of add_group_member / remove_group_member raises and is rolled
\* back: no row changes, the request is answered 500
MemberTxnFail(r) ==
    /\ pc[r] \in {"add_txn", "rm_txn"}
    /\ outbox' = {HttpResponse(r, "500", "Internal Server Error")}
    /\ Return(r)
    /\ UNCHANGED <<regVars, alive, dbVars, now, histVars, auxVars>>

\* the active member rows of the group
MembersOf(g, members) == {<<k[2], members[k]>> : k \in {x \in DOMAIN members : x[1] = g}}

\* get_group_state: the member check and the SELECT of the group row (key_epoch);
\* history: rows keeps the member rows that stood beside that key_epoch
GetGroupState(r, g, user) ==
    /\ pc[r] = "idle"
    /\ LET detail == require_group_member(g, user)
       IN IF detail # "ok"
          THEN /\ outbox' = {HttpResponse(r, AuthzStatus(detail), detail)}
               /\ UNCHANGED taskVars
          ELSE /\ Continue(r, "gs_members",
                      [NoFrame EXCEPT !.type = "get_group_state", !.conversation_id = g,
                                      !.actor = user],
                      [NoLocal EXCEPT !.epoch = groups[g],
                                      !.rows = MembersOf(g, group_members)])
               /\ outbox' = {}
    /\ UNCHANGED <<regVars, alive, dbVars, now, histVars, auxVars>>

\* get_group_state: the SELECT of the member rows, and the response built from
\* the key_epoch read before and the members read now
GroupStateMembers(r) ==
    /\ pc[r] = "gs_members"
    /\ outbox' = {[HttpResponse(r, "200", "group_state") EXCEPT
                      !.conversation_id = frame[r].conversation_id,
                      !.epoch = local[r].epoch,
                      !.count = Cardinality(MembersOf(frame[r].conversation_id,
                                                      group_members))]}
    /\ Return(r)
    /\ UNCHANGED <<regVars, alive, dbVars, now, histVars, auxVars>>

\* ---- initial state and next-state relation -------------------------------
\* config.py as shipped
DefaultSettings == [FAILURE_MODE |-> "ip_temp", PANIC_MODE |-> FALSE]

\* no rate-guard call made, empty defense tables, FAILURE_MODE one of modes
InitAux(modes) ==
    /\ rate_calls = [w \in WS |-> << >>]
    /\ blocked_ips = << >>
    /\ auth_failures = << >>
    /\ settings \in {[DefaultSettings EXCEPT !.FAILURE_MODE = m] : m \in modes}
    /\ streak = [ip \in IPs |-> 0]
    /\ running = TRUE
    /\ legacy_threads = FALSE
    /\ buckets = << >>
    /\ bucket_calls = [ip \in IPs |-> << >>]

\* the server starts on a database that already holds the direct conversation c1
\* of u1 and u2; the registry is empty and no socket is connected
InitRelay ==
    /\ connections = << >>
    /\ conversation_subscriptions = << >>
    /\ alive = [w \in WS |-> FALSE]
    /\ pc = [t \in Tasks |-> IF t \in WS THEN "new" ELSE Rest0(t)]
    /\ frame = [t \in Tasks |-> NoFrame]
    /\ local = [t \in Tasks |-> NoLocal]
    /\ outbox = {}
    /\ conversations = [c \in DirectIds |-> "direct"]
    /\ conversation_participants = DirectIds \X Users
    /\ groups = << >>
    /\ group_members = << >>
    /\ messages = {}
    /\ message_user_state = {}
    /\ now = 0
    /\ epoch_ops = [g \in GroupIds |-> 0]
    /\ epoch_returned = [g \in GroupIds |-> << >>]
    /\ delivered = [w \in WS |-> << >>]

Init == InitRelay /\ InitAux({DefaultSettings.FAILURE_MODE})

\* ---- bounded explorations -------------------------------------------------
InFlightMessages ==
    Cardinality({w \in WS : pc[w] \in {"msg_authz", "msg_epoch", "msg_insert"}})

\* the frame is one the exploration still sends: a recipient other than the sender,
\* and fewer than MaxMessages messages stored or about to be
Sendable(w, f) ==
    /\ f.recipient_id # ws_user[w]
    /\ Cardinality(messages) + InFlightMessages < MaxMessages

PendingGroupOps ==
    Cardinality({r \in Rest : pc[r] \in {"add_txn", "rm_txn"}})

MayChange(g, cap) == epoch_ops[g] + PendingGroupOps < cap

\* frames of the registry exploration: a recipient named, no epoch, always a
\* client_message_id
PlainMessageFrames ==
    {f \in MessageFrames : /\ f.group_epoch = NoEpoch
                           /\ f.client_message_id # None
                           /\ f.recipient_id # None}

\* frames of the group exploration: group conversations, every epoch input,
\* always a client_message_id
EpochMessageFrames ==
    {f \in MessageFrames : f.client_message_id # None /\ f.conversation_id \in GroupIds}

EndpointNext ==
    \/ \E w \in WS : Connect(w)
    \/ \E w \in WS : PeerGone(w)
    \/ \E w \in WS : ReceiveDisconnect(w)

SubscriptionNext ==
    \/ \E w \in WS : \E f \in SubscribeFrames : HandleSubscribe(w, f)
    \/ \E w \in WS : SubAuth(w)
    \/ \E w \in WS : SubDo(w)
    \/ \E w \in WS : \E f \in UnsubscribeFrames : HandleUnsubscribe(w, f)
    \/ \E w \in WS : HandleSubscribeUser(w)
    \/ \E w \in WS : SubUserLoop(w)
    \/ \E w \in WS : SubUserDone(w)

MessageNext ==
    \/ \E w \in WS : MsgAuthz(w)
    \/ \E w \in WS : MsgEpoch(w)
    \/ \E w \in WS : MsgInsert(w)
    \/ \E w \in WS : MsgStates(w)
    \/ \E w \in WS : MsgSubs(w)
    \/ \E w \in WS : MsgAck(w)

CreateNext(RS) ==
    \/ \E r \in RS : \E g \in GroupIds : \E o \in Users : \E ms \in SUBSET Users :
           CreateGroup(r, g, o, ms \ {o})
    \/ \E r \in RS : GroupMembersNotify(r)

MemberNext(RS, cap) ==
    \/ \E r \in RS : \E g \in GroupIds : \E a \in Users : \E u \in Users : \E ro \in Roles :
           MayChange(g, cap) /\ AddGroupMember(r, g, a, u, ro)
    \/ \E r \in RS : AddGroupMemberTxn(r)
    \/ \E r \in RS : AddGroupMemberNotify(r)
    \/ \E r \in RS : \E g \in GroupIds : \E a \in Users : \E u \in Users :
           MayChange(g, cap) /\ RemoveGroupMember(r, g, a, u)
    \/ \E r \in RS : RemoveGroupMemberTxn(r)

\* the registry and the frames that touch it
Next ==
    \/ EndpointNext
    \/ SubscriptionNext
    \/ \E w \in WS : \E f \in PlainMessageFrames : Sendable(w, f) /\ HandleMessage(w, f)
    \/ MessageNext
    \/ \E t \in WS : BcSnapshot(t)
    \/ \E t \in WS : \E ws \in WS : BcSend(t, ws)
    \/ \E t \in WS : BcCleanup(t)

Spec == Init /\ [][Next]_vars

\* group creation and membership changes by two concurrent requests
NextEpoch ==
    \/ \E w \in WS : Connect(w)
    \/ CreateNext(Rest)
    \/ MemberNext(Rest, MaxGroupOps)
    \/ \E t \in Rest : BcSnapshot(t)
    \/ \E t \in Rest : \E ws \in WS : BcSend(t, ws)

SpecEpoch == Init /\ [][NextEpoch]_vars

\* a database that already holds group g1 of owner u1 and member u2
InitGroups ==
    /\ connections = << >>
    /\ conversation_subscriptions = << >>
    /\ alive = [w \in WS |-> FALSE]
    /\ pc = [t \in Tasks |-> IF t \in WS THEN "new" ELSE Rest0(t)]
    /\ frame = [t \in Tasks |-> NoFrame]
    /\ local = [t \in Tasks |-> NoLocal]
    /\ outbox = {}
    /\ conversations = [c \in GroupIds |-> "group"]
    /\ conversation_participants = GroupIds \X Users
    /\ groups = [g \in GroupIds |-> 1]
    /\ group_members = [k \in GroupIds \X Users |-> IF k[2] = "u1" THEN "owner" ELSE "member"]
    /\ messages = {}
    /\ message_user_state = {}
    /\ now = 0
    /\ epoch_ops = [g \in GroupIds |-> 0]
    /\ epoch_returned = [g \in GroupIds |-> << >>]
    /\ delivered = [w \in WS |-> << >>]
    /\ InitAux({DefaultSettings.FAILURE_MODE})

\* the sockets that send in the group exploration: the plain member's
GroupSenders == {"w2"}

\* membership changes against message sends
NextGroups ==
    \/ \E w \in WS : Connect(w)
    \/ \E w \in GroupSenders : \E f \in EpochMessageFrames : Sendable(w, f) /\ HandleMessage(w, f)
    \/ MessageNext
    \/ \E t \in WS \cup {"r1"} : BcSnapshot(t)
    \/ \E t \in WS \cup {"r1"} : \E ws \in WS : BcSend(t, ws)
    \/ MemberNext({"r1"}, MaxMemberChanges)

SpecGroups == InitGroups /\ [][NextGroups]_vars

\* the socket of the owner, which sends to the group
OwnerSockets == {"w1"}

\* the subscribe frames for a group conversation
GroupSubscribeFrames == {f \in SubscribeFrames : f.conversation_id \in GroupIds}

\* the member subscribes, the owner sends and members are removed (SpecRemoved)
NextRemoved ==
    \/ \E w \in WS : Connect(w)
    \/ \E w \in GroupSenders : \E f \in GroupSubscribeFrames : HandleSubscribe(w, f)
    \/ \E w \in GroupSenders : SubAuth(w)
    \/ \E w \in GroupSenders : SubDo(w)
    \/ \E w \in OwnerSockets : \E f \in EpochMessageFrames : Sendable(w, f) /\ HandleMessage(w, f)
    \/ MessageNext
    \/ \E t \in WS \cup {"r1"} : BcSnapshot(t)
    \/ \E t \in WS \cup {"r1"} : \E ws \in WS : BcSend(t, ws)
    \/ \E g \in GroupIds : \E a \in Users : \E u \in Users :
           MayChange(g, MaxMemberChanges) /\ RemoveGroupMember("r1", g, a, u)
    \/ RemoveGroupMemberTxn("r1")

SpecRemoved == InitGroups /\ [][NextRemoved]_vars

\* the registry exploration on a database that may fail; the failure explored is
\* that of the statement after the INSERT of the message row (SpecPersist)
NextPersist ==
    \/ Next
    \/ \E w \in WS : HandleUnknown(w)
    \/ \E w \in WS : pc[w] = "msg_states" /\ MsgPersistFail(w)

SpecPersist == Init /\ [][NextPersist]_vars

\* get_group_state against membership changes (SpecObserve)
NextObserve ==
    \/ \E w \in WS : Connect(w)
    \/ MemberNext({"r1"}, MaxGroupOps)
    \/ MemberTxnFail("r1")
    \/ BcSnapshot("r1")
    \/ \E ws \in WS : BcSend("r1", ws)
    \/ \E g \in GroupIds : \E u \in Users : GetGroupState("r2", g, u)
    \/ GroupStateMembers("r2")

SpecObserve == InitGroups /\ [][NextObserve]_vars

\* subscriptions against membership changes (SpecSubscribe)
NextSubscribe ==
    \/ EndpointNext
    \/ SubscriptionNext
    \/ MemberNext({"r1"}, MaxMemberChanges)
    \/ BcSnapshot("r1")
    \/ \E ws \in WS : BcSend("r1", ws)
    \/ BcCleanup("r1")

SpecSubscribe == InitGroups /\ [][NextSubscribe]_vars
\* ---- the rate guard against the clock (SpecRate) ---------------------------
\* monotonic() moves on
Tick ==
    /\ now < MaxClock
    /\ now' = now + 1
    /\ outbox' = {}
    /\ UNCHANGED <<regVars, alive, taskVars, dbVars, histVars, auxVars>>

\* one call of allow_incoming_message for a registered socket, as handle_message makes it
RateCall(w) ==
    /\ pc[w] = "recv"
    /\ Len(rate_calls[w]) < MaxCalls
    /\ LET guard == allow_incoming_message(Registry, w, now,
                        MAX_WS_MESSAGES_PER_WINDOW, WS_RATE_WINDOW_SECONDS)
       IN /\ SetRegistry(guard.registry)
          /\ rate_calls' = [rate_calls EXCEPT ![w] =
                               Append(@, [at |-> now, allowed |-> guard.allowed])]
    /\ outbox' = {}
    /\ UNCHANGED <<alive, taskVars, dbVars, now, histVars, defenseVars>>

NextRate ==
    \/ \E w \in WS : Connect(w)
    \/ Tick
    \/ \E w \in WS : RateCall(w)

SpecRate == Init /\ [][NextRate]_vars

\* the calls before the i-th that were allowed no more than window_seconds before it
InWindow(calls, i) ==
    {j \in 1 .. (i - 1) : calls[j].allowed
                          /\ calls[j].at + WS_RATE_WINDOW_SECONDS >= calls[i].at}

\* C7: from an empty history the first max_messages calls within one window are
\* allowed, a call that finds max_messages allowed calls within the window is denied,
\* and a call made more than window_seconds after every earlier call is allowed again
C7_SlidingWindow ==
    \A w \in WS : \A i \in DOMAIN rate_calls[w] :
        LET calls == rate_calls[w]
        IN /\ (i <= MAX_WS_MESSAGES_PER_WINDOW) => calls[i].allowed
           /\ (Cardinality(InWindow(calls, i)) >= MAX_WS_MESSAGES_PER_WINDOW)
                  => ~calls[i].allowed
           /\ (\A j \in 1 .. (i - 1) : calls[j].at + WS_RATE_WINDOW_SECONDS < calls[i].at)
                  => calls[i].allowed
           /\ calls[i].allowed <=>
                  (Cardinality(InWindow(calls, i)) < MAX_WS_MESSAGES_PER_WINDOW)

\* max_messages calls allowed at one instant, the next one denied exactly
\* window_seconds later, and one allowed again after the window
C7_Witness ==
    \E w \in WS :
        LET calls == rate_calls[w]
            n == MAX_WS_MESSAGES_PER_WINDOW
        IN /\ Len(calls) >= n + 2
           /\ \A i \in 1 .. n : calls[i].allowed /\ calls[i].at = calls[1].at
           /\ ~calls[n + 1].allowed
           /\ calls[n + 1].at = calls[1].at + WS_RATE_WINDOW_SECONDS
           /\ calls[n + 2].allowed
           /\ calls[n + 2].at > calls[1].at + WS_RATE_WINDOW_SECONDS

\* ---- DefenseService (services/defense.py) ---------------------------------
\* the tables a request works on as one value, with what the request did to the
\* process: the events it logged, whether a statement raised, whether it exited
Defense ==
    [blocked |-> blocked_ips, failures |-> auth_failures,
     messages |-> messages, message_user_state |-> message_user_state,
     conversations |-> conversations,
     conversation_participants |-> conversation_participants,
     groups |-> groups, group_members |-> group_members,
     logs |-> {}, raised |-> FALSE, exited |-> FALSE]

SetDefense(D) ==
    /\ blocked_ips' = D.blocked
    /\ auth_failures' = D.failures
    /\ messages' = D.messages
    /\ message_user_state' = D.message_user_state
    /\ conversations' = D.conversations
    /\ conversation_participants' = D.conversation_participants
    /\ groups' = D.groups
    /\ group_members' = D.group_members
    /\ running' = ~D.exited

\* variant: only a row without expiry blocks
active_permanent_only(row, t) == row.permanent

\* the row blocks at time t: no expiry, or an expiry later than t
Active(row, t) == row.permanent \/ row.expires_at > t

\* variant: an expired row is reported not blocked and left in the table
check_ip_blocked_keeps_row(D, ip, t) ==
    IF ip \notin DOMAIN D.blocked THEN [blocked |-> FALSE, defense |-> D]
    ELSE [blocked |-> Active(D.blocked[ip], t), defense |-> D]

\* check_ip_blocked: the verdict, and the tables after the lazy removal of an
\* expired row
check_ip_blocked(D, ip, t) ==
    IF ip \notin DOMAIN D.blocked THEN [blocked |-> FALSE, defense |-> D]
    ELSE IF Active(D.blocked[ip], t) THEN [blocked |-> TRUE, defense |-> D]
    ELSE [blocked |-> FALSE, defense |-> [D EXCEPT !.blocked = Drop(@, ip)]]

get_failure_count(D, ip) == IF ip \in DOMAIN D.failures THEN D.failures[ip] ELSE 0

\* variant: the record is left as it is
reset_failures_kept(D, ip) == D

reset_failures(D, ip) == [D EXCEPT !.failures = Drop(@, ip)]

\* TRUNCATE TABLE threads CASCADE succeeds when the database holds the table
truncate_threads(has_threads) == has_threads

\* _wipe_database: TRUNCATE messages CASCADE takes message_user_state with it (the
\* one table with a foreign key on messages); the statement on threads raises on
\* a database without that table and the defense tables are then never reached
_wipe_database(D) ==
    LET D1 == [D EXCEPT !.logs = @ \cup {"db_wipe"}, !.messages = {},
                        !.message_user_state = {}]
    IN IF ~truncate_threads(legacy_threads) THEN [D1 EXCEPT !.raised = TRUE]
       ELSE [D1 EXCEPT !.blocked = << >>, !.failures = << >>]

\* _shutdown: sys.exit(1)
_shutdown(D) == [D EXCEPT !.logs = @ \cup {"shutdown"}, !.exited = TRUE]

_execute_panic_mode(D) ==
    LET W == _wipe_database(D)
    IN IF W.raised THEN W ELSE _shutdown(W)

\* record_failure: panic mode first; otherwise the upsert, then the remaining attempts
record_failure(D, ip) ==
    LET D1 == [D EXCEPT !.failures = Put(@, ip, get_failure_count(D, ip) + 1)]
    IN IF settings.PANIC_MODE
       THEN [remaining |-> 0,
             defense |-> _execute_panic_mode([D EXCEPT !.logs = @ \cup {"auth_failure"}])]
       ELSE [remaining |-> MAX_AUTH_FAILURES - get_failure_count(D1, ip),
             defense |-> [D1 EXCEPT !.logs = @ \cup {"auth_failure"}]]

_block_ip_temporary(D, ip, t) ==
    reset_failures([D EXCEPT !.blocked =
                        Put(@, ip, [permanent |-> FALSE,
                                    expires_at |-> t + IP_BLOCK_MINUTES])], ip)

_block_ip_permanent(D, ip) ==
    reset_failures([D EXCEPT !.blocked =
                        Put(@, ip, [permanent |-> TRUE, expires_at |-> 0])], ip)

trigger_policy(D, ip, t) ==
    IF settings.FAILURE_MODE = "ip_temp" THEN _block_ip_temporary(D, ip, t)
    ELSE IF settings.FAILURE_MODE = "ip_perm" THEN _block_ip_permanent(D, ip)
    ELSE IF settings.FAILURE_MODE = "db_wipe" THEN _wipe_database(D)
    ELSE IF settings.FAILURE_MODE = "db_wipe_shutdown"
    THEN LET W == _wipe_database(D) IN IF W.raised THEN W ELSE _shutdown(W)
    ELSE D

\* ---- SecurityMiddleware (middleware/security.py) --------------------------
\* _check_ip_blocked: no row is removed here
_check_ip_blocked(D, ip, t) == ip \in DOMAIN D.blocked /\ Active(D.blocked[ip], t)

\* _cleanup_expired_blocks: rows with an expiry earlier than t go
_cleanup_expired_blocks(D, t) ==
    [D EXCEPT !.blocked =
        [i \in {x \in DOMAIN D.blocked :
                    D.blocked[x].permanent \/ ~(D.blocked[x].expires_at < t)} |->
            D.blocked[i]]]

\* dispatch up to call_next: the response that ends the request here ("none" when
\* the request goes on to the router) and the tables afterwards
dispatch(D, ip, t, general_ok, lookup_ok, cleanup) ==
    IF ~general_ok THEN [status |-> "429", error |-> "rate_limited", defense |-> D]
    ELSE IF ~lookup_ok THEN [status |-> None, error |-> None, defense |-> D]
    ELSE IF _check_ip_blocked(D, ip, t)
    THEN [status |-> "403", error |-> "ip_blocked", defense |-> D]
    ELSE [status |-> None, error |-> None,
          defense |-> IF cleanup THEN _cleanup_expired_blocks(D, t) ELSE D]

\* ---- routers/auth.py ------------------------------------------------------
\* the response of the router: none once the process exited, 500 when a statement
\* raised, else what the handler returned or raised as HTTPException
Reply(status, error, D) ==
    IF D.exited THEN [status |-> "exit", error |-> None, defense |-> D]
    ELSE IF D.raised THEN [status |-> "500", error |-> "internal_server_error", defense |-> D]
    ELSE [status |-> status, error |-> error, defense |-> D]

\* variant: the policy waits for one failure more
policy_overdue(remaining) == remaining < 0

\* if remaining <= 0: trigger_policy
policy_due(remaining) == remaining <= 0

\* record_failure, then trigger_policy when no attempt remains
failed_attempt(D, ip, t) ==
    LET recorded == record_failure(D, ip)
    IN IF recorded.defense.raised \/ recorded.defense.exited THEN recorded.defense
       ELSE IF policy_due(recorded.remaining) THEN trigger_policy(recorded.defense, ip, t)
       ELSE recorded.defense

\* verify_vault: auth rate limit, block check, passphrase
verify_vault(D, ip, t, limiter_ok, is_valid) ==
    LET block_status == check_ip_blocked(D, ip, t)
    IN IF ~limiter_ok THEN Reply("429", "rate_limited", D)
       ELSE IF block_status.blocked THEN Reply("403", "ip_blocked", block_status.defense)
       ELSE IF is_valid THEN Reply("200", None, reset_failures(block_status.defense, ip))
       ELSE Reply("401", "invalid_credentials", failed_attempt(block_status.defense, ip, t))

Credentials == {"ok", "no_user", "bad_password"}

\* login: vault token, auth rate limit, block check, user and password
login(D, ip, t, token_ok, limiter_ok, credentials) ==
    LET block_status == check_ip_blocked(D, ip, t)
    IN IF ~token_ok THEN Reply("401", "invalid_vault_token", D)
       ELSE IF ~limiter_ok THEN Reply("429", "rate_limited", D)
       ELSE IF block_status.blocked THEN Reply("403", "ip_blocked", block_status.defense)
       ELSE IF credentials # "ok"
       THEN Reply("401", "invalid_credentials", failed_attempt(block_status.defense, ip, t))
       ELSE Reply("200", None, reset_failures(block_status.defense, ip))

\* the block row of the ip at time t: none, one in force, or one that ran out
BlockFound(D, ip, t) ==
    IF ip \notin DOMAIN D.blocked THEN None
    ELSE IF Active(D.blocked[ip], t) THEN "active" ELSE "expired"

\* the response, with the failure count and the block row the request found on record
AuthResponse(ip, endpoint, reply) ==
    [NoSent EXCEPT !.to = ip, !.type = endpoint, !.code = reply.status,
                   !.message = reply.error, !.count = get_failure_count(Defense, ip),
                   !.block = BlockFound(Defense, ip, now)]

LogFrame(event) == [NoSent EXCEPT !.type = "log", !.message = event]

\* failed attempts of the ip since its last success, back to zero at the threshold
StreakAfter(ip, reply) ==
    IF reply.status = "200" THEN 0
    ELSE IF reply.error # "invalid_credentials" THEN streak[ip]
    ELSE IF streak[ip] + 1 >= MAX_AUTH_FAILURES THEN 0
    ELSE streak[ip] + 1

\* one request through the middleware and the router
Serve(ip, endpoint, passed, reply) ==
    LET final == IF passed.status # None THEN passed ELSE reply
    IN /\ running
       /\ SetDefense(final.defense)
       /\ outbox' = {LogFrame(e) : e \in final.defense.logs} \cup
                     (IF final.status = "exit" THEN {}
                      ELSE {AuthResponse(ip, endpoint, final)})
       /\ streak' = [streak EXCEPT ![ip] = StreakAfter(ip, final)]
       /\ UNCHANGED <<regVars, alive, taskVars, now, histVars, rate_calls, settings,
                      legacy_threads, bucketVars>>

\* POST /auth/vault
VerifyVault(ip, general_ok, lookup_ok, cleanup, limiter_ok, is_valid) ==
    LET passed == dispatch(Defense, ip, now, general_ok, lookup_ok, cleanup)
    IN Serve(ip, "vault", passed,
             verify_vault(passed.defense, ip, now, limiter_ok, is_valid))

\* POST /auth/login
Login(ip, general_ok, lookup_ok, cleanup, token_ok, limiter_ok, credentials) ==
    LET passed == dispatch(Defense, ip, now, general_ok, lookup_ok, cleanup)
    IN Serve(ip, "login", passed,
             login(passed.defense, ip, now, token_ok, limiter_ok, credentials))

BlockingModes == {"ip_temp", "ip_perm"}

InitDefense == InitRelay /\ InitAux(BlockingModes)

NextDefense ==
    \/ Tick
    \/ \E ip \in IPs : \E general_ok, lookup_ok, cleanup, limiter_ok, is_valid \in BOOLEAN :
           VerifyVault(ip, general_ok, lookup_ok, cleanup, limiter_ok, is_valid)
    \/ \E ip \in IPs : \E general_ok, lookup_ok, cleanup, token_ok, limiter_ok \in BOOLEAN :
           \E credentials \in Credentials :
               Login(ip, general_ok, lookup_ok, cleanup, token_ok, limiter_ok, credentials)

SpecDefense == InitDefense /\ [][NextDefense]_vars

\* ---- RateLimiter (middleware/rate_limit.py, SpecBucket) ----------------------
Min(a, b) == IF a <= b THEN a ELSE b

\* _get_bucket: the bucket of the ip, a full one made now when there is none
_get_bucket(B, ip, t) ==
    IF ip \in DOMAIN B THEN B[ip]
    ELSE [last_update |-> t, tokens |-> burst_size * TokenUnit]

\* variant: the refill is not capped at burst_size
replenish_uncapped(tokens, time_passed) == tokens + time_passed * tokens_per_tick

\* min(burst_size, tokens + time_passed * tokens_per_second)
replenish(tokens, time_passed) ==
    Min(burst_size * TokenUnit, tokens + time_passed * tokens_per_tick)

\* is_allowed: the verdict and the buckets afterwards
is_allowed(B, ip, t) ==
    LET bucket == _get_bucket(B, ip, t)
        tokens == replenish(bucket.tokens, t - bucket.last_update)
    IN IF tokens >= TokenUnit
       THEN [allowed |-> TRUE,
             buckets |-> Put(B, ip, [last_update |-> t, tokens |-> tokens - TokenUnit])]
       ELSE [allowed |-> FALSE,
             buckets |-> Put(B, ip, [last_update |-> t, tokens |-> tokens])]

\* a request of the ip reaches the limiter
IsAllowed(ip) ==
    /\ Len(bucket_calls[ip]) < MaxBucketCalls
    /\ LET verdict == is_allowed(buckets, ip, now)
       IN /\ buckets' = verdict.buckets
          /\ bucket_calls' = [bucket_calls EXCEPT ![ip] =
                                  Append(@, [at |-> now, allowed |-> verdict.allowed])]
    /\ outbox' = {}
    /\ UNCHANGED <<regVars, alive, taskVars, dbVars, now, histVars, rate_calls,
                   blocked_ips, auth_failures, settings, streak, running, legacy_threads>>

NextBucket ==
    \/ Tick
    \/ \E ip \in IPs : IsAllowed(ip)

SpecBucket == Init /\ [][NextBucket]_vars

\* the tokens the ip holds at the time, before the call consumes any
Refilled(ip) ==
    LET bucket == _get_bucket(buckets, ip, now)
    IN Min(burst_size * TokenUnit,
           bucket.tokens + (now - bucket.last_update) * tokens_per_tick)

\* C21: a fresh ip starts with burst_size tokens; every call refills first, is
\* allowed iff the refilled count is at least one token, takes exactly one token
\* when allowed and none when denied; the stored count stays within
\* [0, burst_size]; with no time passing since the first call exactly burst_size
\* calls in a row are allowed and the next one is denied
C21_TokenBucket ==
    /\ [](\A ip \in DOMAIN buckets :
             buckets[ip].tokens >= 0 /\ buckets[ip].tokens <= burst_size * TokenUnit)
    /\ [](\A ip \in IPs : \A i \in DOMAIN bucket_calls[ip] :
             (bucket_calls[ip][i].at = bucket_calls[ip][1].at)
                 => (bucket_calls[ip][i].allowed <=> i <= burst_size))
    /\ [][\A ip \in IPs :
             bucket_calls'[ip] # bucket_calls[ip]
                 => LET verdict == bucket_calls'[ip][Len(bucket_calls'[ip])].allowed
                    IN /\ ip \notin DOMAIN buckets => Refilled(ip) = burst_size * TokenUnit
                       /\ verdict <=> Refilled(ip) >= TokenUnit
                       /\ buckets'[ip].tokens =
                              IF verdict THEN Refilled(ip) - TokenUnit ELSE Refilled(ip)
                       /\ buckets'[ip].last_update = now]_vars

\* an ip used up its burst, was denied with part of a token in the bucket after a
\* tick, and was allowed again later
C21_Witness ==
    \E ip \in IPs :
        LET calls == bucket_calls[ip]
        IN /\ Len(calls) = MaxBucketCalls
           /\ \E i \in DOMAIN calls :
                  /\ i > burst_size
                  /\ ~calls[i].allowed
                  /\ calls[i].at > calls[1].at
                  /\ \E j \in DOMAIN calls : j > i /\ calls[j].allowed

\* ---- the wipe policies (SpecWipe) -------------------------------------------
\* a stored message in group g1, with one message_user_state row per participant
StoredMessage(ttl, sender) ==
    [id |-> 1, conversation_id |-> "g1", sender_id |-> sender, group_epoch |-> 1,
     expires_after_seen_sec |-> ttl, sender_delete_after_seen_at |-> NoTime,
     sender_deleted_at |-> NoTime]

StoredStates(sender, members) ==
    {[message_id |-> 1, user_id |-> u, is_sender |-> (u = sender), seen_at |-> NoTime,
      delete_after_seen_at |-> NoTime, deleted_at |-> NoTime] : u \in members}

\* the members of the stored group: everyone when u3 owns it, else the two users
\* that hold sockets
StoredMembers(owner) == IF owner = "u3" THEN Accounts ELSE Users

\* a database that holds group g1 with its owner and members, and one message the
\* owner sent to it
InitStore(ttls, owners) ==
    /\ connections = << >>
    /\ conversation_subscriptions = << >>
    /\ alive = [w \in WS |-> FALSE]
    /\ pc = [t \in Tasks |-> IF t \in WS THEN "new" ELSE Rest0(t)]
    /\ frame = [t \in Tasks |-> NoFrame]
    /\ local = [t \in Tasks |-> NoLocal]
    /\ outbox = {}
    /\ conversations = [c \in GroupIds |-> "group"]
    /\ groups = [g \in GroupIds |-> 1]
    /\ \E owner \in owners :
           /\ conversation_participants = GroupIds \X StoredMembers(owner)
           /\ group_members =
                  [k \in GroupIds \X StoredMembers(owner) |->
                      IF k[2] = owner THEN "owner" ELSE "member"]
           /\ \E ttl \in ttls : messages = {StoredMessage(ttl, owner)}
           /\ message_user_state = StoredStates(owner, StoredMembers(owner))
    /\ now = 0
    /\ epoch_ops = [g \in GroupIds |-> 0]
    /\ epoch_returned = [g \in GroupIds |-> << >>]
    /\ delivered = [w \in WS |-> << >>]

FailureModes == {"ip_temp", "ip_perm", "db_wipe", "db_wipe_shutdown"}
WipeModes == {"db_wipe", "db_wipe_shutdown"}

\* every failure mode with panic mode on, the two wipe modes with panic mode off; a
\* database with or without the table threads of the earlier schema; failures of an
\* ip already on record or not
InitWipe ==
    /\ InitStore({NoTtl}, {"u3"})
    /\ rate_calls = [w \in WS |-> << >>]
    /\ blocked_ips = << >>
    /\ auth_failures \in {<< >>, [ip \in {"ip1"} |-> 1]}
    /\ settings \in {[FAILURE_MODE |-> m, PANIC_MODE |-> p] :
                         m \in FailureModes, p \in BOOLEAN}
    /\ settings.PANIC_MODE \/ settings.FAILURE_MODE \in WipeModes
    /\ streak = [ip \in IPs |-> get_failure_count(Defense, ip)]
    /\ running = TRUE
    /\ legacy_threads \in BOOLEAN
    /\ buckets = << >>
    /\ bucket_calls = [ip \in IPs |-> << >>]

\* the ip has fewer than MaxRecorded failures on record
MayAttempt(ip) == get_failure_count(Defense, ip) < MaxRecorded

NextWipe ==
    \/ Tick
    \/ \E ip \in IPs : \E general_ok, lookup_ok, cleanup, limiter_ok, is_valid \in BOOLEAN :
           MayAttempt(ip)
               /\ VerifyVault(ip, general_ok, lookup_ok, cleanup, limiter_ok, is_valid)
    \/ \E ip \in IPs : \E general_ok, lookup_ok, cleanup, token_ok, limiter_ok \in BOOLEAN :
           \E credentials \in Credentials :
               MayAttempt(ip)
                   /\ Login(ip, general_ok, lookup_ok, cleanup, token_ok, limiter_ok,
                            credentials)

SpecWipe == InitWipe /\ [][NextWipe]_vars

\* ---- services/message_expiry.py (SpecExpiry) --------------------------------
\* variant: a deadline that was never set counts as passed
due_or_unset(deadline, t) == deadline <= t

\* variant: a deadline counts as passed one tick before it is reached
due_early(deadline, t) == deadline # NoTime /\ deadline <= t + 1

\* the deadline IS NOT NULL AND the deadline <= NOW()
due(deadline, t) == deadline # NoTime /\ deadline <= t

\* variant: the sender's copy alone decides
hard_deletable_by_sender(m, states) == m.sender_deleted_at # NoTime

\* variant: the test on the state rows is the wrong way round
hard_deletable_none_marked(m, states) ==
    /\ m.sender_deleted_at # NoTime
    /\ \A r \in states : r.message_id = m.id => r.deleted_at = NoTime

\* sender_deleted_at IS NOT NULL AND NOT EXISTS (a state row with deleted_at IS NULL)
hard_deletable(m, states) ==
    /\ m.sender_deleted_at # NoTime
    /\ \A r \in states : r.message_id = m.id => r.deleted_at # NoTime

DeletedFrame(type, id) == [NoSent EXCEPT !.type = type, !.id = id]

\* variant: the claim takes a row whether or not it is marked deleted
unclaimed_or_claimed(deleted_at) == TRUE

\* deleted_at IS NULL (sender_deleted_at IS NULL): the row was not claimed yet
unclaimed(deleted_at) == deleted_at = NoTime

\* the sweep wakes up: the recipient rows that are due are marked deleted and their
\* users are told
SweepRecipients(x) ==
    /\ pc[x] = "sleep"
    /\ LET recipient_rows ==
               {r \in message_user_state :
                   /\ ~r.is_sender
                   /\ unclaimed(r.deleted_at)
                   /\ due(r.delete_after_seen_at, now)
                   /\ \E m \in messages : m.id = r.message_id}
       IN /\ message_user_state' =
                 {IF r \in recipient_rows THEN [r EXCEPT !.deleted_at = now] ELSE r :
                     r \in message_user_state}
          /\ outbox' = UNION {send_to_user(Registry, r.user_id,
                                  DeletedFrame("message_deleted_for_user", r.message_id)) :
                              r \in recipient_rows}
    /\ pc' = [pc EXCEPT ![x] = "sweep_sender"]
    /\ UNCHANGED <<regVars, alive, frame, local, conversations, conversation_participants,
                   groups, group_members, messages, now, histVars, auxVars>>

\* the messages whose sender deadline is due: sender_deleted_at, the sender's state
\* row, and the notice to the sender
SweepSender(x) ==
    /\ pc[x] = "sweep_sender"
    /\ LET due_ids == {m.id : m \in {y \in messages :
                                         /\ unclaimed(y.sender_deleted_at)
                                         /\ due(y.sender_delete_after_seen_at, now)}}
           sender_rows == {r \in message_user_state :
                              /\ r.message_id \in due_ids
                              /\ r.is_sender
                              /\ unclaimed(r.deleted_at)}
       IN /\ messages' = {IF m.id \in due_ids THEN [m EXCEPT !.sender_deleted_at = now]
                          ELSE m : m \in messages}
          /\ message_user_state' =
                 {IF r \in sender_rows THEN [r EXCEPT !.deleted_at = now] ELSE r :
                     r \in message_user_state}
          /\ outbox' = UNION {send_to_user(Registry, r.user_id,
                                  DeletedFrame("message_deleted_for_sender", r.message_id)) :
                              r \in sender_rows}
    /\ pc' = [pc EXCEPT ![x] = "sweep_delete"]
    /\ UNCHANGED <<regVars, alive, frame, local, conversations, conversation_participants,
                   groups, group_members, now, histVars, auxVars>>

\* DELETE FROM messages ...; the state rows of a deleted message go with it
SweepDelete(x) ==
    /\ pc[x] = "sweep_delete"
    /\ LET gone == {m.id : m \in {y \in messages : hard_deletable(y, message_user_state)}}
       IN /\ messages' = {m \in messages : m.id \notin gone}
          /\ message_user_state' = {r \in message_user_state : r.message_id \notin gone}
    /\ pc' = [pc EXCEPT ![x] = "sleep"]
    /\ outbox' = {}
    /\ UNCHANGED <<regVars, alive, frame, local, conversations, conversation_participants,
                   groups, group_members, now, histVars, auxVars>>

\* a stored message with any lifetime or none; nothing seen yet
InitExpiry ==
    /\ InitStore({NoTtl} \cup AllowedTtls, {"u3", "u1"})
    /\ InitAux({DefaultSettings.FAILURE_MODE})

\* the steps of handle_message_seen after the frame was received
SeenStep(w) ==
    \/ SeenFetch(w)
    \/ SeenMark(w)
    \/ SeenDeadline(w)
    \/ SeenAllSeen(w)
    \/ SeenSender(w)
    \/ SeenAggregate(w)
    \/ SeenNotify(w)

SeenNext ==
    \/ \E w \in WS : \E f \in SeenFrames : HandleMessageSeen(w, f)
    \/ \E w \in WS : SeenStep(w)

WorkerNext ==
    \/ \E x \in Workers : SweepRecipients(x)
    \/ \E x \in Workers : SweepSender(x)
    \/ \E x \in Workers : SweepDelete(x)

\* recipients marking the message seen while the clock and the worker run
NextExpiry ==
    \/ \E w \in WS : Connect(w)
    \/ Tick
    \/ SeenNext
    \/ \E t \in WS : BcSnapshot(t)
    \/ WorkerNext

SpecExpiry == InitExpiry /\ [][NextExpiry]_vars

\* ---- the sweeps under fair scheduling (SpecExpiryLive) ----------------------
\* a stored message with the shortest lifetime
InitExpiryLive ==
    /\ InitStore({1}, {"u3", "u1"})
    /\ InitAux({DefaultSettings.FAILURE_MODE})

\* message_seen frames that name the stored message
LiveFrames == {f \in SeenFrames : f.message_id = 1}

NextExpiryLive ==
    \/ \E w \in WS : Connect(w)
    \/ now < MaxLiveClock /\ Tick
    \/ \E w \in WS : \E f \in LiveFrames : HandleMessageSeen(w, f)
    \/ \E w \in WS : SeenStep(w)
    \/ \E t \in WS : BcSnapshot(t)
    \/ WorkerNext

\* a handler that was started runs on to its end, and the worker's loop
\* (sleep, then process_due_message_expiry) goes round forever
FairExpiry ==
    /\ \A w \in WS : WF_vars(SeenStep(w) \/ BcSnapshot(w))
    /\ WF_vars(WorkerNext)

SpecExpiryLive == InitExpiryLive /\ [][NextExpiryLive]_vars /\ FairExpiry

\* the sweeps of two server processes on one database (SpecSweeps)
NextSweeps ==
    \/ \E w \in WS : Connect(w)
    \/ now < MaxLiveClock /\ Tick
    \/ SeenNext
    \/ \E t \in WS : BcSnapshot(t)
    \/ \E x \in Workers \cup SecondWorkers : SweepRecipients(x)
    \/ \E x \in Workers \cup SecondWorkers : SweepSender(x)
    \/ \E x \in Workers \cup SecondWorkers : SweepDelete(x)

SpecSweeps == InitExpiryLive /\ [][NextSweeps]_vars

\* ---- properties of the defense policy (SpecDefense) ------------------------
Blocked(ip) == ip \in DOMAIN blocked_ips

\* a row that is permanent or has not reached its expiry
ActiveBlock(ip) ==
    /\ Blocked(ip)
    /\ (blocked_ips[ip].permanent \/ now < blocked_ips[ip].expires_at)

\* the step served a request of the ip with this status and error
Answered(ip, status, error) ==
    \E m \in outbox' : m.to = ip /\ m.code = status /\ m.message = error

FailedAttemptStep(ip) == Answered(ip, "401", "invalid_credentials")

SuccessStep(ip) == Answered(ip, "200", None)

TemporaryBlock(t) == [permanent |-> FALSE, expires_at |-> t + IP_BLOCK_MINUTES]

\* C8: in mode ip_temp no block row is written for an ip before MAX_AUTH_FAILURES
\* failed attempts without a success in between; the failed attempt that is the
\* MAX_AUTH_FAILURES-th writes a block expiring at now + IP_BLOCK_MINUTES and
\* clears the ip's failure record
C8_TemporaryBlockAtThreshold ==
    [][settings.FAILURE_MODE = "ip_temp" =>
          \A ip \in IPs :
              /\ (Blocked(ip)' /\ (~Blocked(ip) \/ blocked_ips'[ip] # blocked_ips[ip]))
                     => /\ FailedAttemptStep(ip)
                        /\ streak[ip] + 1 = MAX_AUTH_FAILURES
              /\ (FailedAttemptStep(ip) /\ streak[ip] + 1 < MAX_AUTH_FAILURES)
                     => /\ ~Blocked(ip)'
                        /\ ip \in DOMAIN auth_failures'
                        /\ auth_failures'[ip] = streak[ip] + 1
              /\ (FailedAttemptStep(ip) /\ streak[ip] + 1 = MAX_AUTH_FAILURES)
                     => /\ Blocked(ip)'
                        /\ blocked_ips'[ip] = TemporaryBlock(now)
                        /\ ip \notin DOMAIN auth_failures']_vars

\* the failed attempt that reached the threshold left a temporary block and no record
C8_Witness ==
    \E ip \in IPs :
        /\ settings.FAILURE_MODE = "ip_temp"
        /\ Blocked(ip)
        /\ blocked_ips[ip] = TemporaryBlock(now)
        /\ ip \notin DOMAIN auth_failures
        /\ \E m \in outbox : /\ m.to = ip
                             /\ m.message = "invalid_credentials"
                             /\ m.count + 1 = MAX_AUTH_FAILURES

\* C9: a successful vault or login attempt deletes the ip's failure record; the
\* record always counts the failed attempts since the ip's last success, so failures
\* on both sides of a success never add up to the threshold
C9_SuccessResets ==
    /\ [][\A ip \in IPs : SuccessStep(ip) => ip \notin DOMAIN auth_failures']_vars
    /\ [](\A ip \in IPs :
             /\ get_failure_count(Defense, ip) = streak[ip]
             /\ streak[ip] < MAX_AUTH_FAILURES)

\* a success found failures on record and left none
C9_Witness ==
    \E m \in outbox :
        /\ m.code = "200"
        /\ m.count > 0
        /\ m.to \notin DOMAIN auth_failures
        /\ ~Blocked(m.to)

PastBlockCheck(ip) ==
    SuccessStep(ip) \/ FailedAttemptStep(ip) \/ Answered(ip, "500", "internal_server_error")

\* the block row the failure policy writes at time t
FreshBlock(row, t) == row.permanent \/ row = TemporaryBlock(t)

\* C11: check_ip_blocked reports blocked exactly when the ip has a block row that is
\* permanent or expires strictly later than now, and then leaves the tables alone; a
\* check that finds an expired temporary row reports not blocked and deletes it; a
\* permanent row stays, so it is reported blocked at every later time; a request
\* that got past the check leaves no expired row behind
C11_BlockCheck ==
    /\ [](\A ip \in IPs :
             LET found == check_ip_blocked(Defense, ip, now)
             IN /\ found.blocked <=> ActiveBlock(ip)
                /\ (found.blocked \/ ~Blocked(ip)) => found.defense = Defense
                /\ (Blocked(ip) /\ ~ActiveBlock(ip))
                       => /\ ip \notin DOMAIN found.defense.blocked
                          /\ found.defense = [Defense EXCEPT !.blocked = Drop(@, ip)])
    /\ [][\A ip \in IPs :
             /\ (Blocked(ip) /\ blocked_ips[ip].permanent)
                    => (Blocked(ip)' /\ blocked_ips'[ip].permanent /\ ActiveBlock(ip)')
             /\ PastBlockCheck(ip)
                    => /\ ~ActiveBlock(ip)
                       /\ Blocked(ip)' => FreshBlock(blocked_ips'[ip], now)]_vars

\* a request found an expired temporary block on record, was let through to the
\* credentials, and the row is gone
C11_Witness ==
    \E m \in outbox :
        /\ m.block = "expired"
        /\ m.code = "200"
        /\ m.to \in IPs
        /\ ~Blocked(m.to)

\* ---- properties of the wipe policies (SpecWipe) -------------------------------
\* the step logged the event
Logged(event) == \E m \in outbox' : m.type = "log" /\ m.message = event

ContentEmpty ==
    /\ messages = {}
    /\ message_user_state = {}
    /\ conversations = << >>
    /\ conversation_participants = {}
    /\ groups = << >>
    /\ group_members = << >>

DefenseTablesEmpty == blocked_ips = << >> /\ auth_failures = << >>

\* C12: with panic mode on, a recorded authentication failure wipes the database and
\* terminates the process, whatever FAILURE_MODE and the failures on record; no
\* failure is counted, no block is written, and no request is served afterwards
C12_PanicWipesAndTerminates ==
    /\ [][(settings.PANIC_MODE /\ Logged("auth_failure"))
             => /\ ContentEmpty'
                /\ DefenseTablesEmpty'
                /\ ~running']_vars
    /\ [][~running => (outbox' = {} /\ UNCHANGED <<dbVars, blocked_ips, auth_failures>>)]_vars

\* C13: after trigger_policy ran in mode db_wipe or db_wipe_shutdown, messages,
\* per-user message state, conversations, participants, groups and both defense
\* tables are empty
C13_WipeEmptiesEverything ==
    [][(~settings.PANIC_MODE /\ settings.FAILURE_MODE \in WipeModes /\ Logged("db_wipe"))
          => (ContentEmpty' /\ DefenseTablesEmpty')]_vars

\* ---- properties of the seen-based expiry (SpecExpiry) -------------------------
\* the socket's handler takes the step that leaves the label
Leaves(w, label) == pc[w] = label /\ pc'[w] # label

HasTtl(m) == m.expires_after_seen_sec # NoTtl

\* the state rows of the message as the step leaves them
RecipientStatesAfter(id) ==
    {r \in message_user_state' : r.message_id = id /\ ~r.is_sender}

\* the latest time at which one of the rows was seen
LatestSeen(rows) ==
    CHOOSE t \in {r.seen_at : r \in rows} : \A r \in rows : r.seen_at <= t

\* C14: for a message with expires_after_seen_sec = T, the first message_seen of a
\* recipient stamps its row with seen_at = now and then delete_after_seen_at =
\* seen_at + T; sender_delete_after_seen_at stays unset while a recipient has not
\* seen the message, and the message_seen that finds every recipient row seen sets
\* it to the latest seen_at plus T
C14_SeenDeadlines ==
    /\ [](\A m \in messages :
             HasTtl(m) =>
                 LET rows == RecipientStates(m.id)
                     T == m.expires_after_seen_sec
                 IN /\ \A r \in rows :
                           r.delete_after_seen_at # NoTime
                               => /\ r.seen_at # NoTime
                                  /\ r.delete_after_seen_at = r.seen_at + T
                    /\ (\E r \in rows : r.seen_at = NoTime)
                           => m.sender_delete_after_seen_at = NoTime
                    /\ m.sender_delete_after_seen_at # NoTime
                           => m.sender_delete_after_seen_at = LatestSeen(rows) + T)
    /\ [][\A w \in WS :
             LET id == local[w].msg_id
                 mine == {r \in RecipientStates(id) : r.user_id = ws_user[w]}
                 mine_after == {r \in RecipientStatesAfter(id) : r.user_id = ws_user[w]}
             IN /\ (Leaves(w, "seen_mark") /\ mine # {})
                       => \A r \in mine : \A q \in mine_after :
                              q.seen_at = IF r.seen_at = NoTime THEN now ELSE r.seen_at
                /\ (Leaves(w, "seen_deadline") /\ local[w].ttl # NoTtl)
                       => \A q \in mine_after :
                              q.delete_after_seen_at = q.seen_at + local[w].ttl
                /\ (Leaves(w, "seen_all") /\ local[w].ttl # NoTtl
                        /\ \A r \in RecipientStates(id) : r.seen_at # NoTime)
                       => pc'[w] = "seen_sender"
                /\ Leaves(w, "seen_sender")
                       => \A m \in messages' :
                              m.id = id => m.sender_delete_after_seen_at =
                                               LatestSeen(RecipientStatesAfter(id))
                                                   + local[w].ttl]_vars

\* two recipients saw the message at different times and the sender's deadline is
\* the later time plus the lifetime
C14_Witness ==
    \E m \in messages : \E r1, r2 \in RecipientStates(m.id) :
        /\ HasTtl(m)
        /\ r1.seen_at # NoTime
        /\ r1.seen_at < r2.seen_at
        /\ r1.delete_after_seen_at = r1.seen_at + m.expires_after_seen_sec
        /\ r2.delete_after_seen_at = r2.seen_at + m.expires_after_seen_sec
        /\ m.sender_delete_after_seen_at = r2.seen_at + m.expires_after_seen_sec

\* the message is stored now and its row is gone after the step
HardDeleted(m) == \A n \in messages' : n.id # m.id

\* C15: a message row is removed only by the worker's DELETE, and only when the
\* sender's copy is marked (sender_deleted_at set) and every message_user_state row
\* of the message, the sender's and each recipient's (one per participant), has
\* deleted_at set
C15_HardDeleteAfterAllCopies ==
    [][\A m \in messages :
          HardDeleted(m)
              => /\ \E x \in Workers : Leaves(x, "sweep_delete")
                 /\ m.sender_deleted_at # NoTime
                 /\ \A u \in Accounts :
                        <<m.conversation_id, u>> \in conversation_participants
                            => \E r \in message_user_state :
                                   /\ r.message_id = m.id
                                   /\ r.user_id = u
                                   /\ r.deleted_at # NoTime
                 /\ \A r \in message_user_state :
                        r.message_id = m.id => r.deleted_at # NoTime]_vars

\* the worker removed the stored message and its state rows
C15_Witness ==
    /\ messages = {}
    /\ message_user_state = {}
    /\ \A x \in Workers : pc[x] = "sleep"

\* the row as the step leaves it, if it is still there
RowAfter(r) ==
    {q \in message_user_state' : q.message_id = r.message_id /\ q.user_id = r.user_id}

\* C16: the worker marks a recipient's copy deleted only when the recipient has seen
\* the message and delete_after_seen_at <= now, and the sender's copy only when
\* sender_delete_after_seen_at is set and <= now; nothing else marks a copy; no copy
\* of a message without a lifetime is ever marked
C16_WorkerMarksOnlyDue ==
    /\ [][\A r \in message_user_state : \A q \in RowAfter(r) :
             (r.deleted_at = NoTime /\ q.deleted_at # NoTime)
                 => /\ \E x \in Workers : pc[x] # pc'[x]
                    /\ q.deleted_at = now
                    /\ ~r.is_sender
                           => /\ r.seen_at # NoTime
                              /\ r.delete_after_seen_at # NoTime
                              /\ r.delete_after_seen_at <= now
                    /\ r.is_sender
                           => \E m \in messages :
                                  /\ m.id = r.message_id
                                  /\ m.sender_delete_after_seen_at # NoTime
                                  /\ m.sender_delete_after_seen_at <= now]_vars
    /\ [](\A m \in messages :
             ~HasTtl(m)
                 => /\ m.sender_deleted_at = NoTime
                    /\ \A r \in message_user_state :
                           r.message_id = m.id => r.deleted_at = NoTime)

\* the worker marked the copy of a recipient whose deadline passed and left the copy
\* of a recipient who has not seen the message
C16_Witness ==
    \E r1, r2 \in message_user_state :
        /\ r1.message_id = r2.message_id
        /\ ~r1.is_sender /\ ~r2.is_sender
        /\ r1.deleted_at # NoTime
        /\ r1.delete_after_seen_at <= r1.deleted_at
        /\ r2.seen_at = NoTime
        /\ r2.deleted_at = NoTime

\* every recipient has seen the message and every deadline that follows from the
\* times they saw it has passed
AllSeenAndPassed(m) ==
    /\ HasTtl(m)
    /\ RecipientStates(m.id) # {}
    /\ \A r \in RecipientStates(m.id) : r.seen_at # NoTime
    /\ LatestSeen(RecipientStates(m.id)) + m.expires_after_seen_sec <= now

\* the frames handed to the live sockets of the user
Notified(user, type, id) ==
    \A ws \in UserSockets(Registry, user) :
        alive[ws] => [DeletedFrame(type, id) EXCEPT !.to = ws] \in outbox'

\* C17: once every recipient of a message with a lifetime has seen it and all
\* deadlines have passed, the fairly scheduled handlers and sweeps lead to the
\* message row being hard-deleted, with every state row marked deleted before; the
\* step that marks a row sends message_deleted_for_user (message_deleted_for_sender
\* for the sender's row) to the sockets of its user
C17_ExpiryCompletes ==
    /\ ((\E m \in messages : AllSeenAndPassed(m)) ~> (messages = {}))
    /\ [][\A r \in message_user_state : \A q \in RowAfter(r) :
             (r.deleted_at = NoTime /\ q.deleted_at # NoTime)
                 => Notified(r.user_id,
                             IF r.is_sender THEN "message_deleted_for_sender"
                             ELSE "message_deleted_for_user",
                             r.message_id)]_vars

\* the sender, connected, was told that the copy is gone after the recipient's copy
\* had been marked
C17_Witness ==
    /\ \E m \in outbox : m.type = "message_deleted_for_sender" /\ m.to \in WS
    /\ \A r \in message_user_state : r.deleted_at # NoTime
    /\ messages # {}

\* ---- properties of the registry (Spec) ------------------------------------
Subscribers(c) ==
    IF c \in DOMAIN conversation_subscriptions THEN conversation_subscriptions[c] ELSE {}

OwnSet(w) ==
    IF w \in DOMAIN connections THEN connections[w].subscribed_conversations ELSE {}

\* a send to the socket failed and unregistered it while its own handler still runs
CleanedUp(w) == w \notin DOMAIN connections /\ pc[w] \notin {"new", "closed"}

\* C1: a connection is in the subscriber set of a conversation if and only if the
\* conversation is in the connection's own subscribed_conversations set
C1_BidirectionalConsistency ==
    \A w \in WS : \A c \in Convs : (w \in Subscribers(c)) <=> (c \in OwnSet(w))

\* a socket was unregistered by a failed send, another one is still subscribed
C1_Witness ==
    \E w \in WS : \E v \in WS \ {w} : \E c \in Convs :
        /\ CleanedUp(w)
        /\ v \in Subscribers(c)
        /\ c \in OwnSet(v)

\* C2: a disconnected socket is not registered and is in no subscriber set, no empty
\* subscriber set is kept, and no later step (a subscribe included) puts the socket back
C2_DisconnectScrubs ==
    /\ [](\A w \in WS \ DOMAIN connections :
             \A c \in DOMAIN conversation_subscriptions :
                 w \notin conversation_subscriptions[c])
    /\ [](\A c \in DOMAIN conversation_subscriptions : conversation_subscriptions[c] # {})
    /\ [][\A w \in WS :
             (pc[w] # "new" /\ w \notin DOMAIN connections) =>
                 /\ w \notin DOMAIN connections'
                 /\ \A c \in DOMAIN conversation_subscriptions' :
                        w \notin conversation_subscriptions'[c]]_vars

\* disconnect ran for a socket whose subscribe is still to be applied, and the index
\* holds no entry at all
C2_Witness ==
    \E w \in WS :
        /\ CleanedUp(w)
        /\ pc[w] = "sub_do"
        /\ conversation_subscriptions = << >>
        /\ conversation_participants # {}

\* C3: every connection holds at most MAX_WS_SUBSCRIPTIONS_PER_CONNECTION
\* subscriptions, whatever subscribe, subscribe_user and message frames are processed
C3_SubscriptionCap ==
    \A w \in DOMAIN connections :
        get_subscription_count(Registry, w) <= MAX_WS_SUBSCRIPTIONS_PER_CONNECTION
\* ---- properties of the group epoch (SpecGroups, SpecEpoch) -----------------
IsGroup(c) == c \in DOMAIN conversations /\ conversations[c] = "group"

Stored == <<messages, message_user_state>>

\* C4: a message frame for a group whose supplied group_epoch differs from the
\* group's key_epoch is answered with error code stale_group_epoch, and the handler
\* returns with no messages row, no message_user_state row, no broadcast and no ack
C4_StaleEpochRejected ==
    [][\A w \in WS :
          LET c == frame[w].conversation_id
          IN (/\ Leaves(w, "msg_epoch")
              /\ IsGroup(c)
              /\ c \in DOMAIN groups
              /\ local[w].epoch # NoEpoch
              /\ local[w].epoch # groups[c])
             => /\ outbox' = {[ErrorFrame("stale_group_epoch", "stale_group_epoch",
                                         frame[w].client_message_id) EXCEPT !.to = w]}
                /\ pc'[w] = "recv"
                /\ Stored' = Stored]_vars

\* the group rotated, and the frame stamped with the old epoch was refused
C4_Witness ==
    \E w \in WS : \E g \in GroupIds :
        /\ groups[g] > 1
        /\ pc[w] = "recv"
        /\ messages = {}
        /\ \E m \in outbox : m.to = w /\ m.type = "error" /\ m.code = "stale_group_epoch"

Distinct(seq) == \A i, j \in DOMAIN seq : i # j => seq[i] # seq[j]

\* C5: after K committed add_group_member / remove_group_member operations, in any
\* interleaving, key_epoch = 1 + K, it never decreases, and the K operations
\* returned K distinct epochs
C5_EpochMonotonic ==
    /\ [](\A g \in DOMAIN groups :
             /\ groups[g] = 1 + epoch_ops[g]
             /\ Len(epoch_returned[g]) = epoch_ops[g]
             /\ Distinct(epoch_returned[g]))
    /\ [][\A g \in DOMAIN groups : g \in DOMAIN groups' /\ groups'[g] >= groups[g]]_vars

\* two membership changes were committed on a created group
C5_Witness ==
    \E g \in DOMAIN groups :
        /\ epoch_ops[g] >= 2
        /\ groups[g] = 1 + epoch_ops[g]
        /\ Len(epoch_returned[g]) >= 2

\* C6: a message frame from a user who is not a participant of an existing
\* conversation is answered with error code forbidden, whatever recipient_id and
\* group_epoch it carries; nothing is stored and the participants stay as they were
C6_NonParticipantRefused ==
    [][\A w \in WS :
          LET c == frame[w].conversation_id
          IN (/\ Leaves(w, "msg_authz")
              /\ c \in DOMAIN conversations
              /\ ~is_conversation_participant(c, ws_user[w]))
             => /\ conversation_participants' = conversation_participants
                /\ pc'[w] = "recv"
                /\ \E m \in outbox' : m.to = w /\ m.type = "error" /\ m.code = "forbidden"]_vars

\* ---- properties of the first-contact send and of the broadcast (Spec) --------
ParticipantsOf(c, P) == {p \in P : p[1] = c}

StatesOf(id, S) == {r \in S : r.message_id = id}

StateRow(id, user, is_sender) ==
    [message_id |-> id, user_id |-> user, is_sender |-> is_sender, seen_at |-> NoTime,
     delete_after_seen_at |-> NoTime, deleted_at |-> NoTime]

\* the socket the step of the broadcast loop handed the envelope to, if it took one
Handled(t) == local[t].bc_pending \ local'[t].bc_pending

\* C18: a message frame from A that names recipient B and a client_message_id, for a
\* conversation id that does not exist: the conversation and the participant rows of
\* exactly A and B are created; the message is stored with one state row for A
\* (is_sender) and one for B; every registered socket of A and of B is subscribed
\* before any socket was handed the envelope; the broadcast hands the envelope to
\* each live socket of its snapshot, no socket ever gets it twice; A's socket, if
\* its peer is still there, got the envelope once and is sent message_sent with the
\* same client_message_id and the id of the stored message
C18_FirstContact ==
    /\ [](\A ws \in WS : \A id \in DOMAIN delivered[ws] : delivered[ws][id] <= 1)
    /\ [][\A w \in WS :
             LET c == frame[w].conversation_id
                 A == ws_user[w]
                 B == frame[w].recipient_id
                 id == local[w].msg_id
             IN /\ (Leaves(w, "msg_authz") /\ c \notin DOMAIN conversations /\ B # None)
                    => /\ c \in DOMAIN conversations'
                       /\ ParticipantsOf(c, conversation_participants')
                              = {<<c, A>>, <<c, B>>}
                       /\ pc'[w] = "msg_epoch"
                /\ (Leaves(w, "msg_states") /\ B # None)
                    => /\ \E m \in messages :
                              m.id = id /\ m.sender_id = A /\ m.conversation_id = c
                       /\ StatesOf(id, message_user_state')
                              = {StateRow(id, A, TRUE), StateRow(id, B, FALSE)}
                /\ (Leaves(w, "msg_subs") /\ B # None)
                    => /\ \A ws \in DOMAIN connections' :
                              ws_user[ws] \in {A, B}
                                  => /\ c \in connections'[ws].subscribed_conversations
                                     /\ c \in DOMAIN conversation_subscriptions'
                                     /\ ws \in conversation_subscriptions'[c]
                       /\ \A ws \in WS : Received(ws, id) = 0
                       /\ pc'[w] = "bc_snapshot"
                /\ (pc[w] = "bc_send" /\ local[w].bc_type = "message")
                    => \A ws \in Handled(w) :
                           (alive[ws] /\ pc[ws] # "closed")
                               => /\ [BroadcastFrame(w) EXCEPT !.to = ws] \in outbox'
                                  /\ delivered'[ws][id] = 1
                /\ (Leaves(w, "msg_ack") /\ alive[w])
                    => /\ outbox' = {[NoSent EXCEPT !.to = w, !.type = "message_sent",
                                         !.id = id, !.conversation_id = c,
                                         !.client_message_id = frame[w].client_message_id]}
                       /\ frame[w].client_message_id # None
                       /\ \E m \in messages : m.id = id /\ m.sender_id = A
                       /\ Received(w, id) = 1
                       /\ pc'[w] = "recv"]_vars

\* the first message of u1 to u2 made conversation g1; u2's socket was handed the
\* envelope once, and u1's socket holds the ack
C18_Witness ==
    \E w \in WS : \E v \in WS \ {w} : \E m \in messages :
        /\ m.conversation_id \notin DirectIds
        /\ m.sender_id = ws_user[w]
        /\ ParticipantsOf(m.conversation_id, conversation_participants)
               = {<<m.conversation_id, ws_user[w]>>, <<m.conversation_id, ws_user[v]>>}
        /\ StatesOf(m.id, message_user_state)
               = {StateRow(m.id, ws_user[w], TRUE), StateRow(m.id, ws_user[v], FALSE)}
        /\ Received(v, m.id) = 1
        /\ Received(w, m.id) = 1
        /\ \E a \in outbox :
               /\ a.to = w
               /\ a.type = "message_sent"
               /\ a.id = m.id
               /\ a.client_message_id # None

\* C20: when broadcast_to_conversation returns, every socket whose send raised is
\* out of the registry and of every subscriber set; the loop hands the envelope to
\* every live socket of the snapshot, whether or not an earlier send raised, and it
\* ends only with the last socket of the snapshot
C20_BroadcastCleanup ==
    [][\A t \in Tasks :
          /\ (pc[t] \in {"bc_send", "bc_cleanup"} /\ pc'[t] \notin {"bc_send", "bc_cleanup"})
              => \A ws \in local[t].bc_failed :
                     /\ ws \notin DOMAIN connections'
                     /\ \A c \in DOMAIN conversation_subscriptions' :
                            ws \notin conversation_subscriptions'[c]
          /\ pc[t] = "bc_send"
              => /\ \A ws \in Handled(t) :
                        /\ (alive[ws] /\ pc[ws] # "closed")
                               => [BroadcastFrame(t) EXCEPT !.to = ws] \in outbox'
                        /\ (~alive[ws] /\ pc[ws] # "closed")
                               => ws \in local'[t].bc_failed \/ pc'[t] # "bc_send"
                 /\ pc'[t] = "bc_send" => local'[t].bc_pending # {}
                 /\ Leaves(t, "bc_send") => Cardinality(local[t].bc_pending) = 1]_vars

\* the send to one socket raised, the next socket of the snapshot was handed the
\* envelope, and the cleanup is still to run
C20_Witness ==
    \E t \in Tasks : \E ws \in WS :
        /\ pc[t] = "bc_cleanup"
        /\ local[t].bc_failed # {}
        /\ ws \notin local[t].bc_failed
        /\ \E m \in outbox : m.to = ws /\ m.type = local[t].bc_type

\* ---- properties of the group ownership (SpecEpoch) ---------------------------
\* C19: every group has at least one active member with role owner; a request that
\* would remove or demote the last owner is answered 400 and changes neither the
\* members nor the key_epoch
C19_LastOwnerKept ==
    /\ [](\A g \in DOMAIN groups : owner_count(g) >= 1)
    /\ [][\A r \in Rest :
             (/\ pc[r] \in {"add_txn", "rm_txn"}
              /\ pc'[r] # pc[r]
              /\ owner_count(frame[r].conversation_id) = 1
              /\ <<frame[r].conversation_id, frame[r].user_id>> \in DOMAIN group_members
              /\ group_members[<<frame[r].conversation_id, frame[r].user_id>>] = "owner"
              /\ frame[r].role # "owner")
                 => /\ group_members' = group_members
                    /\ groups' = groups]_vars

\* ---- properties of the subscribe handler (SpecSubscribe) ----------------------
\* the step puts the socket into the subscriber set of the conversation
Joins(w, c) ==
    /\ w \notin Subscribers(c)
    /\ c \in DOMAIN conversation_subscriptions'
    /\ w \in conversation_subscriptions'[c]

\* C22: a subscribe frame puts the connection into a subscriber set only after the
\* participant check of the handler found the connection's user among the
\* participants of the conversation; a frame of a non-participant, or for a
\* conversation that does not exist, is answered with an error frame and adds
\* nothing: the registry is as it was (the socket is dropped from it when its peer
\* is gone and the error frame cannot be sent)
C22_SubscribeAuthorized ==
    [][\A w \in WS :
          LET c == frame[w].conversation_id
          IN /\ (Leaves(w, "sub_auth")
                   /\ (c \notin DOMAIN conversations
                          \/ ~is_conversation_participant(c, ws_user[w])))
                 => /\ pc'[w] = "recv"
                    /\ \A d \in Convs : ~Joins(w, d)
                    /\ alive[w] =>
                          /\ Registry' = Registry
                          /\ \E m \in outbox' : m.to = w /\ m.type = "error"
                    /\ ~alive[w] => Registry' = disconnect(Registry, w)
             /\ (pc[w] # "sub_do" /\ pc'[w] = "sub_do")
                 => /\ pc[w] = "sub_auth"
                    /\ c \in DOMAIN conversations
                    /\ is_conversation_participant(c, ws_user[w])
             /\ \A d \in Convs :
                    Joins(w, d)
                        => \/ pc[w] = "sub_do" /\ d = c
                           \/ pc[w] = "su_loop"
                                 /\ d \in local[w].rows
                           \/ \E r \in Rest :
                                 /\ pc[r] = "add_sub"
                                 /\ frame[r].conversation_id = d
                                 /\ frame[r].user_id = ws_user[w]]_vars

\* u2 was removed from the group, its subscribe frame was refused, and the socket
\* is registered and in no subscriber set
C22_Witness ==
    \E w \in WS : \E g \in GroupIds :
        /\ <<g, ws_user[w]>> \notin conversation_participants
        /\ g \in DOMAIN conversations
        /\ pc[w] = "recv"
        /\ w \in DOMAIN connections
        /\ \A c \in Convs : w \notin Subscribers(c)
        /\ \E m \in outbox :
               /\ m.to = w
               /\ m.type = "error"
               /\ m.message = "Forbidden: not a participant in this conversation"

\* ---- properties of the error paths (SpecPersist) ------------------------------
\* the step hands the socket an error frame
ErrorSent(w) == \E m \in outbox' : m.to = w /\ m.type = "error"

\* the step hands the socket an error frame and leaves the connection registered,
\* ready for its next frame, with the subscriptions it had before the step
KeptOpen(w) ==
    /\ w \in DOMAIN connections
    /\ w \in DOMAIN connections'
    /\ connections'[w].subscribed_conversations = connections[w].subscribed_conversations
    /\ \A c \in Convs : (w \in Subscribers(c)) <=> (w \in Subscribers(c)')
    /\ pc'[w] = "recv"

C24_ErrorFramesCarryCode ==
    /\ [](\A m \in outbox : m.type = "error" => m.code # None)
    /\ [][\A w \in WS :
             (pc[w] \in {"msg_authz", "msg_epoch", "msg_insert", "msg_states"}
                 /\ frame[w].client_message_id # None)
                 => \A m \in outbox' :
                        (m.to = w /\ m.type = "error")
                            => m.client_message_id = frame[w].client_message_id]_vars

\* the participants the message was sent to: those of its conversation
SentTo(m) == {u \in Accounts : <<m.conversation_id, u>> \in conversation_participants}

\* C28: every message row stands with exactly one state row per participant of its
\* conversation, at every moment another connection can read the tables; a handler
\* that reports message_persist_failed leaves no message row behind
C28_MessageAndStatesAtomic ==
    /\ [](\A m \in messages :
             {r.user_id : r \in StatesOf(m.id, message_user_state)} = SentTo(m))
    /\ [][\A w \in WS :
             (\E e \in outbox' :
                  e.to = w /\ e.type = "error" /\ e.code = "message_persist_failed")
                 => \A m \in messages' : m.id # local[w].msg_id \/ local[w].msg_id = 0]_vars

\* ---- properties of the stages of handle_message (SpecGroups) -------------------
MessageLabels == {"msg_authz", "msg_epoch", "msg_insert", "msg_states", "msg_subs"}

\* C25: the stages run in the order validate, epoch-check, rate-check, persist,
\* broadcast, ack: a frame refused as stale_group_epoch has used no slot of the
\* sender's rate window; a frame refused by the rate guard is neither stored nor
\* broadcast; a socket is handed the envelope of a message only when its row is
\* stored; the ack is sent only after the broadcast has returned
C25_StageOrder ==
    [][\A w \in WS :
          /\ (\E m \in outbox' :
                  m.to = w /\ m.type = "error" /\ m.code = "stale_group_epoch")
                 => SlotsUsed(Registry, w, now) = local[w].slots_before
          /\ (\E m \in outbox' : m.to = w /\ m.type = "error" /\ m.code = "rate_limited")
                 => /\ messages' = messages
                    /\ pc'[w] = "recv"
          /\ (\E m \in outbox' : m.type = "message")
                 => \E t \in WS : \E r \in messages :
                        pc[t] = "bc_send" /\ r.id = local[t].msg_id
          /\ (\E m \in outbox' : m.to = w /\ m.type = "message_sent")
                 => pc[w] = "msg_ack"]_vars

\* C27: the row of a group message carries the key_epoch the group has at the
\* moment the row is inserted, whether the sender named the epoch or left it out
C27_EpochAtInsert ==
    [][\A w \in WS :
          LET c == frame[w].conversation_id
          IN (Leaves(w, "msg_insert") /\ IsGroup(c) /\ c \in DOMAIN groups)
                 => \A m \in messages' \ messages : m.group_epoch = groups[c]]_vars

\* ---- properties of the group state (SpecObserve) ------------------------------
\* C29: the members of a group and its key_epoch change in the same step, a
\* transaction that fails changes neither, and get_group_state answers with a
\* key_epoch and member rows that stood together in the database
C29_MembershipWithEpoch ==
    [][/\ \A g \in DOMAIN groups :
              /\ MembersOf(g, group_members') # MembersOf(g, group_members)
                     => groups'[g] = groups[g] + 1
              /\ groups'[g] # groups[g] => epoch_ops'[g] = epoch_ops[g] + 1
       /\ \A r \in Rest :
              /\ (\E m \in outbox' : m.to = r /\ m.code = "500")
                     => group_members' = group_members /\ groups' = groups
              /\ Leaves(r, "gs_members")
                     => MembersOf(frame[r].conversation_id, group_members) = local[r].rows]_vars

\* ---- concurrent failed logins (services/defense.py, SpecFailures) -------------
\* record_failure, first round trip: the upsert of the failure record;
\* history: count keeps the counter value this upsert produced
RecordFailureUpsert(r, ip) ==
    /\ pc[r] = "idle"
    /\ running
    /\ ~settings.PANIC_MODE
    /\ MayAttempt(ip)
    /\ auth_failures' = Put(auth_failures, ip, get_failure_count(Defense, ip) + 1)
    /\ Continue(r, "rf_count",
                [NoFrame EXCEPT !.type = "record_failure", !.actor = ip],
                [NoLocal EXCEPT !.count = get_failure_count(Defense, ip) + 1])
    /\ outbox' = {}
    /\ UNCHANGED <<regVars, alive, dbVars, now, histVars, rate_calls, blocked_ips,
                   settings, streak, processVars, bucketVars>>

\* record_failure, second round trip: get_failure_count and the remaining attempts
remaining_of_count(D, ip, own) == MAX_AUTH_FAILURES - get_failure_count(D, ip)

\* record_failure returns and its caller triggers the policy when nothing remains
RecordFailureCount(r) ==
    LET ip == frame[r].actor
        remaining == remaining_of_count(Defense, ip, local[r].count)
        D == IF remaining <= 0 THEN trigger_policy(Defense, ip, now) ELSE Defense
    IN /\ pc[r] = "rf_count"
       /\ SetDefense(D)
       /\ outbox' = {[HttpResponse(r, "401", "invalid_credentials") EXCEPT
                         !.conversation_id = ip,
                         !.id = local[r].count,
                         !.count = remaining,
                         !.block = IF remaining <= 0 THEN "policy" ELSE None]}
       /\ Return(r)
       /\ UNCHANGED <<regVars, alive, now, histVars, rate_calls, settings, streak,
                      legacy_threads, bucketVars>>

\* a successful authentication from the ip: reset_failures
ResetFailures(ip) ==
    /\ running
    /\ SetDefense(reset_failures(Defense, ip))
    /\ outbox' = {}
    /\ UNCHANGED <<regVars, alive, taskVars, now, histVars, rate_calls, settings,
                   streak, legacy_threads, bucketVars>>

NextFailures ==
    \/ Tick
    \/ \E r \in Rest : \E ip \in IPs : RecordFailureUpsert(r, ip)
    \/ \E r \in Rest : RecordFailureCount(r)
    \/ \E ip \in IPs : ResetFailures(ip)

SpecFailures == InitDefense /\ [][NextFailures]_vars

\* C30: every record_failure returns MAX_AUTH_FAILURES minus the counter value
\* its own upsert produced, and the policy is triggered for the call whose
\* upsert reached the threshold
C30_RemainingOfOwnIncrement ==
    \A m \in outbox :
        m.message = "invalid_credentials" /\ m.to \in Rest
            => /\ m.count = MAX_AUTH_FAILURES - m.id
               /\ m.id >= MAX_AUTH_FAILURES => m.block = "policy"

\* ---- the lock of the registry during a broadcast (Spec) -----------------------
\* the sockets subscribed to the conversation
SubscribersOf(c) ==
    IF c \in DOMAIN conversation_subscriptions THEN conversation_subscriptions[c] ELSE {}

\* C26: no task holds the lock while a broadcast is between its sends; the sockets
\* still to be sent to are the subscriber set copied when the broadcast started,
\* less the ones handled, whatever the other connections did to the registry since
C26_BroadcastOutsideLock ==
    /\ [](\A t \in Tasks : pc[t] = "bc_send" => _lock = {})
    /\ [][\A t \in Tasks :
             /\ (pc[t] # "bc_send" /\ pc'[t] = "bc_send")
                    => local'[t].bc_pending = SubscribersOf(local[t].bc_conv)
             /\ (pc[t] = "bc_send" /\ pc'[t] = "bc_send")
                    => local'[t].bc_pending \subseteq local[t].bc_pending
             /\ (pc[t] = "bc_send" /\ local'[t] # local[t])
                    => \A m \in outbox' : m.to \in local[t].bc_pending]_vars

\* a broadcast is between two sends and another connection of its snapshot has
\* left the subscriber set since the copy was taken
C26_Witness ==
    \E t \in Tasks : \E ws \in WS :
        /\ pc[t] = "bc_send"
        /\ ws # t
        /\ ws \in local[t].bc_pending \ SubscribersOf(local[t].bc_conv)

\* ---- requests while statements raise (middleware/security.py, routers/auth.py,
\* ---- SpecOutage) ---------------------------------------------------------------
\* the statement of the router that raises during the request, if one does
RouterFaults == {"check_ip_blocked", "reset_failures", "record_failure"}

\* history: the statement that raised while the request was served
FaultFrame(statement) == [NoSent EXCEPT !.type = "fault", !.message = statement]

\* the statement raises: noted with the events of the request
Fault(D, statement) == [D EXCEPT !.logs = @ \cup {statement}]

\* variant: a check that raises counts as "not blocked"
block_check_fail_open(D, ip, t, raises) ==
    IF raises THEN [raised |-> FALSE, blocked |-> FALSE,
                    defense |-> Fault(D, "check_ip_blocked")]
    ELSE LET block_status == check_ip_blocked(D, ip, t)
         IN [raised |-> FALSE, blocked |-> block_status.blocked,
             defense |-> block_status.defense]

\* block_status = await defense.check_ip_blocked(client_ip): nothing catches what
\* the statement raises
block_check(D, ip, t, raises) ==
    IF raises THEN [raised |-> TRUE, blocked |-> FALSE,
                    defense |-> Fault(D, "check_ip_blocked")]
    ELSE LET block_status == check_ip_blocked(D, ip, t)
         IN [raised |-> FALSE, blocked |-> block_status.blocked,
             defense |-> block_status.defense]

\* the statement raised: the handler ends there and the request is answered 500
Raised(D) == Reply("500", "internal_server_error", [D EXCEPT !.raised = TRUE])

\* the handler from the block check on, shared by verify_vault and login
attempt(D, ip, t, accepted, fault) ==
    LET block_status == block_check(D, ip, t, fault = "check_ip_blocked")
    IN IF block_status.raised THEN Raised(block_status.defense)
       ELSE IF block_status.blocked THEN Reply("403", "ip_blocked", block_status.defense)
       ELSE IF accepted
       THEN IF fault = "reset_failures"
            THEN Raised(Fault(block_status.defense, "reset_failures"))
            ELSE Reply("200", None, reset_failures(block_status.defense, ip))
       ELSE IF fault = "record_failure"
       THEN Raised(Fault(block_status.defense, "record_failure"))
       ELSE Reply("401", "invalid_credentials", failed_attempt(block_status.defense, ip, t))

\* verify_vault with a statement that raises
verify_vault_raising(D, ip, t, limiter_ok, is_valid, fault) ==
    IF ~limiter_ok THEN Reply("429", "rate_limited", D)
    ELSE attempt(D, ip, t, is_valid, fault)

\* login with a statement that raises
login_raising(D, ip, t, token_ok, limiter_ok, credentials, fault) ==
    IF ~token_ok THEN Reply("401", "invalid_vault_token", D)
    ELSE IF ~limiter_ok THEN Reply("429", "rate_limited", D)
    ELSE attempt(D, ip, t, credentials = "ok", fault)

\* the statements that raised in a request that got as far as they are
RaisedIn(final, general_ok, lookup_ok) ==
    (IF general_ok /\ ~lookup_ok THEN {"_check_ip_blocked"} ELSE {}) \cup
    (final.defense.logs \cap RouterFaults)

\* one request through the middleware and the router, with the statements that
\* raised on the way
ServeRaising(ip, endpoint, passed, reply, general_ok, lookup_ok) ==
    LET final == IF passed.status # None THEN passed ELSE reply
        raised == RaisedIn(final, general_ok, lookup_ok)
    IN /\ running
       /\ SetDefense([final.defense EXCEPT !.raised = FALSE])
       /\ outbox' = {FaultFrame(x) : x \in raised} \cup {AuthResponse(ip, endpoint, final)}
       /\ streak' = IF endpoint = "general" THEN streak
                    ELSE [streak EXCEPT ![ip] = StreakAfter(ip, final)]
       /\ UNCHANGED <<regVars, alive, taskVars, now, histVars, rate_calls, settings,
                      legacy_threads, bucketVars>>

\* a request for a route without checks of its own
General(ip, general_ok, lookup_ok, cleanup) ==
    LET passed == dispatch(Defense, ip, now, general_ok, lookup_ok, cleanup)
        reply == Reply("200", None, passed.defense)
    IN ServeRaising(ip, "general", passed, reply, general_ok, lookup_ok)

VerifyVaultRaising(ip, general_ok, lookup_ok, limiter_ok, is_valid, fault) ==
    LET passed == dispatch(Defense, ip, now, general_ok, lookup_ok, FALSE)
        reply == verify_vault_raising(passed.defense, ip, now, limiter_ok, is_valid, fault)
    IN ServeRaising(ip, "vault", passed, reply, general_ok, lookup_ok)

LoginRaising(ip, general_ok, lookup_ok, token_ok, limiter_ok, credentials, fault) ==
    LET passed == dispatch(Defense, ip, now, general_ok, lookup_ok, FALSE)
        reply == login_raising(passed.defense, ip, now, token_ok, limiter_ok,
                               credentials, fault)
    IN ServeRaising(ip, "login", passed, reply, general_ok, lookup_ok)

NextOutage ==
    \/ Tick
    \/ \E ip \in IPs : \E general_ok, lookup_ok, cleanup \in BOOLEAN :
           General(ip, general_ok, lookup_ok, cleanup)
    \/ \E ip \in IPs : \E general_ok, lookup_ok, limiter_ok, is_valid \in BOOLEAN :
           \E fault \in RouterFaults \cup {None} :
               VerifyVaultRaising(ip, general_ok, lookup_ok, limiter_ok, is_valid, fault)
    \/ \E ip \in IPs : \E general_ok, lookup_ok, token_ok, limiter_ok \in BOOLEAN :
           \E credentials \in Credentials : \E fault \in RouterFaults \cup {None} :
               LoginRaising(ip, general_ok, lookup_ok, token_ok, limiter_ok,
                            credentials, fault)

SpecOutage == InitDefense /\ [][NextOutage]_vars

\* C31: a request whose block lookup raised in the middleware goes on to its
\* route, blocked ip or not; a vault or login attempt in which check_ip_blocked,
\* reset_failures or record_failure raised is answered 500, never 200, and leaves
\* the failure records as they were
C31_OpenForTrafficClosedForAuth ==
    /\ [](\A m \in outbox :
            /\ (m.type = "general" /\ FaultFrame("_check_ip_blocked") \in outbox)
                   => m.code = "200"
            /\ (m.type \in {"vault", "login"}
                    /\ \E x \in RouterFaults : FaultFrame(x) \in outbox)
                   => m.code = "500")
    /\ [][(\E x \in RouterFaults : FaultFrame(x) \in outbox')
              => auth_failures' = auth_failures]_vars

\* an attempt from a blocked ip passed the middleware because the lookup raised
\* there, and was answered 500 because the block check of the router raised too
C31_Witness ==
    \E m \in outbox :
        /\ m.type \in {"vault", "login"}
        /\ m.block = "active"
        /\ m.code = "500"
        /\ FaultFrame("_check_ip_blocked") \in outbox
        /\ FaultFrame("check_ip_blocked") \in outbox

\* ---- properties of concurrent sweeps (SpecSweeps) ------------------------------
\* the state row of the message and the user
RowOf(states, id, u) == {r \in states : r.message_id = id /\ r.user_id = u}

\* C32: a sweep tells a user that a message is deleted only in the step that
\* writes deleted_at of the user's row, which was not set before; deleted_at and
\* sender_deleted_at once written keep their value as long as the row is stored,
\* and a deleted row never comes back
C32_ClaimedOnce ==
    [][/\ \A m \in outbox' :
              m.type \in {"message_deleted_for_user", "message_deleted_for_sender"}
                  => \E r \in RowOf(message_user_state, m.id, ws_user[m.to]) :
                         /\ r.deleted_at = NoTime
                         /\ r.is_sender = (m.type = "message_deleted_for_sender")
                         /\ [r EXCEPT !.deleted_at = now] \in message_user_state'
       /\ \A r \in message_user_state :
              r.deleted_at # NoTime
                  => \A q \in RowOf(message_user_state', r.message_id, r.user_id) :
                         q.deleted_at = r.deleted_at
       /\ \A m \in messages :
              m.sender_deleted_at # NoTime
                  => \A q \in messages' : q.id = m.id => q.sender_deleted_at = m.sender_deleted_at
       /\ \A q \in message_user_state' :
              RowOf(message_user_state, q.message_id, q.user_id) # {}]_vars

\* both sweeps are between their statements, one of them claimed the row of a
\* recipient and the later clock shows that the other ran past the claimed row
C32_Witness ==
    /\ \A x \in Workers \cup SecondWorkers : pc[x] # "sleep"
    /\ \E r \in message_user_state :
           ~r.is_sender /\ r.deleted_at # NoTime /\ r.deleted_at < now

\* ---- the order of the per-user states (SpecExpiry) -----------------------------
\* C33: seen_at, delete_after_seen_at and sender_delete_after_seen_at keep the
\* value they were first given and deleted_at is never cleared; a row is marked
\* deleted only after it was seen; the row of the sender never has seen_at, and a
\* message_seen of the sender is answered invalid_seen_actor and changes no row
C33_StateMovesForward ==
    /\ [](\A r \in message_user_state :
             /\ r.is_sender => r.seen_at = NoTime
             /\ (~r.is_sender /\ r.deleted_at # NoTime) => r.seen_at # NoTime)
    /\ [][/\ \A r \in message_user_state :
                 \A q \in RowOf(message_user_state', r.message_id, r.user_id) :
                     /\ r.seen_at # NoTime => q.seen_at = r.seen_at
                     /\ r.delete_after_seen_at # NoTime
                            => q.delete_after_seen_at = r.delete_after_seen_at
                     /\ r.deleted_at # NoTime => q.deleted_at # NoTime
          /\ \A m \in messages : \A q \in messages' :
                 (q.id = m.id /\ m.sender_delete_after_seen_at # NoTime)
                     => q.sender_delete_after_seen_at = m.sender_delete_after_seen_at
          /\ \A w \in WS :
                 /\ (Leaves(w, "seen_fetch")
                         /\ \E m \in messages :
                                /\ m.id = frame[w].message_id
                                /\ m.conversation_id = frame[w].conversation_id
                                /\ m.sender_id = ws_user[w])
                        => /\ pc'[w] # "seen_mark"
                           /\ alive[w] => \E e \in outbox' :
                                              e.to = w /\ e.code = "invalid_seen_actor"
                 /\ (\E e \in outbox' : e.to = w /\ e.code = "invalid_seen_actor")
                        => dbVars' = dbVars]_vars

\* a recipient that marked the message seen earlier sends message_seen again, and
\* the handler is past the UPDATE of seen_at
C33_Witness ==
    \E w \in WS : \E r \in message_user_state :
        /\ pc[w] = "seen_deadline"
        /\ r.message_id = local[w].msg_id
        /\ r.user_id = ws_user[w]
        /\ r.delete_after_seen_at # NoTime
        /\ r.seen_at < now

\* ---- the background sweeps of the registry (services/heartbeat.py,
\* ---- services/connection_cleanup.py, SpecUnregister) ---------------------------
\* send_heartbeats, for one connection of its copy of the registry: the ping, or
\* disconnect() when the socket is not connected or the send raises
Heartbeat(ws) ==
    /\ ws \in DOMAIN connections
    /\ IF alive[ws]
       THEN /\ outbox' = {[NoSent EXCEPT !.to = ws, !.type = "heartbeat"]}
            /\ UNCHANGED regVars
       ELSE /\ outbox' = {}
            /\ SetRegistry(disconnect(Registry, ws))
    /\ UNCHANGED <<alive, taskVars, dbVars, now, histVars, auxVars>>

\* variant: the stale connection is unregistered and its socket left open
close_skipped(ws) == alive

\* await ws.close(code=4002): no frame can be sent on the socket afterwards
close(ws) == [alive EXCEPT ![ws] = FALSE]

\* cleanup_stale_connections, for one connection it found stale: close, then
\* disconnect(); the receive loop of the connection may still be in a handler
IdleSweep(ws) ==
    /\ ws \in DOMAIN connections
    /\ alive' = close(ws)
    /\ SetRegistry(disconnect(Registry, ws))
    /\ outbox' = {}
    /\ UNCHANGED <<taskVars, dbVars, now, histVars, auxVars>>

NextUnregister ==
    \/ Next
    \/ \E ws \in WS : Heartbeat(ws)
    \/ \E ws \in WS : IdleSweep(ws)

SpecUnregister == Init /\ [][NextUnregister]_vars

\* C34: a "subscribed" frame is sent only to a connection that is registered and
\* that is, in the registry as the handler left it, in the subscriber set of the
\* conversation and holds the conversation in its own set
C34_SubscribedMeansSubscribed ==
    \A m \in outbox :
        m.type = "subscribed"
            => /\ m.to \in DOMAIN connections
               /\ m.conversation_id \in connections[m.to].subscribed_conversations
               /\ m.conversation_id \in DOMAIN conversation_subscriptions
               /\ m.to \in conversation_subscriptions[m.conversation_id]

\* a handler of subscribe is about to call subscribe_to_conversation for a
\* connection that a sweep or a failed send has unregistered meanwhile
C34_Witness ==
    \E w \in WS : pc[w] = "sub_do" /\ w \notin DOMAIN connections

\* ---- broadcasts after a removal (SpecRemoved) ----------------------------------
\* C35: once no membership change is in progress, a message envelope that was
\* accepted at the current key_epoch of its group is handed only to sockets of
\* users that are participants of the group
C35_RemovedReceivesNothing ==
    \A m \in outbox :
        (/\ m.type = "message"
         /\ m.to \in WS
         /\ m.conversation_id \in GroupIds
         /\ m.epoch = groups[m.conversation_id]
         /\ \A r \in Rest : pc[r] = "idle")
            => <<m.conversation_id, ws_user[m.to]>> \in conversation_participants

\* ---- the error frame of subscribe_user (Spec) ----------------------------------
\* C36: when handle_subscribe_user ends its loop and sends
\* subscription_limit_reached, a conversation of the user is left unsubscribed
C36_LimitErrorOnlyWhenCapped ==
    [][\A w \in WS :
          (/\ Leaves(w, "su_loop")
           /\ \E e \in outbox' : e.to = w /\ e.message = "subscription_limit_reached")
              => \E c \in Convs :
                     /\ <<c, ws_user[w]>> \in conversation_participants
                     /\ \/ w \notin DOMAIN connections'
                        \/ c \notin connections'[w].subscribed_conversations]_vars

\* ---- the deadline of the sender's copy (SpecExpiry) ----------------------------
\* C37 as stated: a sender deadline that is set is not earlier than any recipient
\* deadline that is set, and once the sender's copy is marked deleted every
\* recipient's copy is marked deleted or due
C37_SenderAfterRecipients ==
    \A m \in messages : \A r \in RecipientStates(m.id) :
        /\ (m.sender_delete_after_seen_at # NoTime /\ r.delete_after_seen_at # NoTime)
               => m.sender_delete_after_seen_at >= r.delete_after_seen_at
        /\ m.sender_deleted_at # NoTime
               => r.deleted_at # NoTime \/ due(r.delete_after_seen_at, now)

\* C37 amended: a sender deadline that is set is not earlier than seen_at plus the
\* lifetime of any recipient, all of whom have seen the message, hence not earlier
\* than any recipient deadline that is set; the sender's copy is marked deleted only
\* when seen_at plus the lifetime has passed for every recipient
C37_SenderAfterSeenPlusTtl ==
    \A m \in messages : \A r \in RecipientStates(m.id) :
        /\ m.sender_delete_after_seen_at # NoTime
               => /\ r.seen_at # NoTime
                  /\ m.sender_delete_after_seen_at >= r.seen_at + m.expires_after_seen_sec
                  /\ r.delete_after_seen_at # NoTime
                         => m.sender_delete_after_seen_at >= r.delete_after_seen_at
        /\ m.sender_deleted_at # NoTime
               => /\ r.seen_at # NoTime
                  /\ r.seen_at + m.expires_after_seen_sec <= now

\* the sender's copy is marked deleted while the handler of a recipient is still
\* between the UPDATE of seen_at and the UPDATE of delete_after_seen_at
C37_Witness ==
    \E m \in messages : \E r \in RecipientStates(m.id) : \E w \in WS :
        /\ m.sender_deleted_at # NoTime
        /\ r.delete_after_seen_at = NoTime
        /\ pc[w] = "seen_deadline"
        /\ ws_user[w] = r.user_id

\* ---- check_ip_blocked beside trigger_policy (services/defense.py, SpecBlockRace)
\* check_ip_blocked, the SELECT: "not blocked" without a row, 403 for a row in
\* force, and on to the DELETE for a row that ran out
BlockCheckSelect(r, ip) ==
    /\ pc[r] = "idle"
    /\ running
    /\ LET found == BlockFound(Defense, ip, now)
       IN IF found = "active"
          THEN /\ outbox' = {[HttpResponse(r, "403", "ip_blocked") EXCEPT
                                !.conversation_id = ip]}
               /\ UNCHANGED taskVars
          ELSE /\ Continue(r, IF found = "expired" THEN "cib_delete" ELSE "cib_attempt",
                           [NoFrame EXCEPT !.type = "auth", !.actor = ip], NoLocal)
               /\ outbox' = {}
    /\ UNCHANGED <<regVars, alive, dbVars, now, histVars, auxVars>>

\* check_ip_blocked, DELETE FROM blocked_ips WHERE ip_address = $1
BlockCheckDelete(r) ==
    /\ pc[r] = "cib_delete"
    /\ blocked_ips' = Drop(blocked_ips, frame[r].actor)
    /\ pc' = [pc EXCEPT ![r] = "cib_attempt"]
    /\ outbox' = {}
    /\ UNCHANGED <<regVars, alive, frame, local, dbVars, now, histVars, rate_calls,
                   auth_failures, settings, streak, processVars, bucketVars>>

\* the rest of the handler: reset_failures for valid credentials, else
\* record_failure and, with no attempt left, trigger_policy
BlockCheckAttempt(r, is_valid) ==
    /\ pc[r] = "cib_attempt"
    /\ LET ip == frame[r].actor
           D == IF is_valid THEN reset_failures(Defense, ip)
                ELSE failed_attempt(Defense, ip, now)
       IN /\ SetDefense(D)
          /\ outbox' = {[HttpResponse(r, IF is_valid THEN "200" ELSE "401",
                                      IF is_valid THEN None ELSE "invalid_credentials")
                            EXCEPT !.conversation_id = ip]}
    /\ Return(r)
    /\ UNCHANGED <<regVars, alive, now, histVars, rate_calls, settings, streak,
                   legacy_threads, bucketVars>>

\* the cleanup of the middleware, on the request that draws it
CleanupExpiredBlocks ==
    /\ running
    /\ SetDefense(_cleanup_expired_blocks(Defense, now))
    /\ outbox' = {}
    /\ UNCHANGED <<regVars, alive, taskVars, now, histVars, rate_calls, settings,
                   streak, legacy_threads, bucketVars>>

NextBlockRace ==
    \/ Tick
    \/ \E r \in Rest : \E ip \in IPs : BlockCheckSelect(r, ip)
    \/ \E r \in Rest : BlockCheckDelete(r)
    \/ \E r \in Rest : \E is_valid \in BOOLEAN : BlockCheckAttempt(r, is_valid)
    \/ CleanupExpiredBlocks

SpecBlockRace == InitDefense /\ [][NextBlockRace]_vars

\* C38: no step removes a block row that is permanent or has not reached its
\* expiry
C38_ActiveBlockStays ==
    [][\A ip \in IPs :
          (ip \in DOMAIN blocked_ips /\ Active(blocked_ips[ip], now))
              => ip \in DOMAIN blocked_ips']_vars

\* ---- create_message (routers/messages.py) ----------------------------------
\* the bodies POST /messages may carry (MessageCreate)
MessageCreate ==
    {[NoFrame EXCEPT !.type = "message", !.conversation_id = c, !.recipient_id = r,
                     !.group_epoch = e] :
        c \in Convs, r \in Users \cup {None}, e \in EpochInputs}

RestInFlight == Cardinality({r \in Rest : pc[r] = "cm_insert"})

\* ensure_direct_conversation: the participant check, and the first-contact insert
\* when a recipient is named
ensure_direct_conversation(r, user, message) ==
    /\ pc[r] = "idle"
    /\ Cardinality(messages) + RestInFlight < MaxMessages
    /\ LET c == message.conversation_id
           f == [message EXCEPT !.actor = user]
       IN IF is_conversation_participant(c, user)
          THEN /\ Continue(r, "cm_insert", f, NoLocal)
               /\ outbox' = {}
               /\ UNCHANGED <<conversations, conversation_participants>>
          ELSE IF message.recipient_id = None
          THEN /\ outbox' = {HttpResponse(r,
                      IF c \in DOMAIN conversations THEN "403" ELSE "404",
                      require_conversation_participant(c, user))}
               /\ UNCHANGED <<taskVars, conversations, conversation_participants>>
          ELSE /\ conversations' = IF c \in DOMAIN conversations THEN conversations
                                   ELSE Put(conversations, c, "direct")
               /\ conversation_participants' = conversation_participants \cup
                      first_contact_participants(c, user, message.recipient_id)
               /\ Continue(r, "cm_insert", f, NoLocal)
               /\ outbox' = {}
    /\ UNCHANGED <<regVars, alive, groups, group_members, messages, message_user_state,
                   now, histVars, auxVars>>

\* INSERT INTO messages (conversation_id, sender_id, ciphertext, iv, group_epoch),
\* then the broadcast of the envelope starts
create_message(r) ==
    /\ pc[r] = "cm_insert"
    /\ LET id == Cardinality(messages) + 1
           c == frame[r].conversation_id
       IN /\ messages' = messages \cup
                 {[id |-> id, conversation_id |-> c,
                   sender_id |-> frame[r].actor, group_epoch |-> frame[r].group_epoch,
                   expires_after_seen_sec |-> NoTtl,
                   sender_delete_after_seen_at |-> NoTime,
                   sender_deleted_at |-> NoTime]}
          /\ local' = [local EXCEPT ![r] =
                 StartBroadcast([NoLocal EXCEPT !.msg_id = id,
                                                !.epoch = frame[r].group_epoch],
                                c, "message", "cm_notify")]
    /\ pc' = [pc EXCEPT ![r] = "bc_snapshot"]
    /\ outbox' = {}
    /\ UNCHANGED <<regVars, alive, frame, conversations, conversation_participants,
                   groups, group_members, message_user_state, now, histVars, auxVars>>

\* "if message.recipient_id": the recipient's sockets are subscribed and sent the
\* envelope; the handler returns the stored row with 201
create_message_return(r) ==
    /\ pc[r] = "cm_notify"
    /\ LET c == frame[r].conversation_id
           to == frame[r].recipient_id
           envelope == [NoSent EXCEPT !.type = "message", !.conversation_id = c,
                                      !.id = local[r].msg_id, !.epoch = local[r].epoch]
       IN /\ SetRegistry(IF to = None THEN Registry
                         ELSE subscribe_user_connections_to_conversation(Registry, to, c))
          /\ outbox' = {[HttpResponse(r, "201", None) EXCEPT
                            !.conversation_id = c, !.id = local[r].msg_id,
                            !.epoch = local[r].epoch]}
                       \cup (IF to = None THEN {} ELSE send_to_user(Registry, to, envelope))
    /\ Return(r)
    /\ UNCHANGED <<alive, dbVars, now, histVars, auxVars>>

\* sockets connect, one subscribes, and messages are posted over REST by one
\* request at a time (SpecRestMessage)
NextRestMessage ==
    \/ \E w \in WS : Connect(w)
    \/ \E w \in GroupSenders : \E f \in SubscribeFrames : HandleSubscribe(w, f)
    \/ \E w \in GroupSenders : SubAuth(w)
    \/ \E w \in GroupSenders : SubDo(w)
    \/ \E u \in Users : \E message \in MessageCreate :
           ensure_direct_conversation("r1", u, message)
    \/ create_message("r1")
    \/ BcSnapshot("r1")
    \/ \E ws \in WS : BcSend("r1", ws)
    \/ create_message_return("r1")

SpecRestMessage == InitGroups /\ [][NextRestMessage]_vars

\* C39: every stored message of a group conversation carries the group's current
\* key epoch (the epoch of a group never changes in SpecRestMessage), and every
\* stored message has one message_user_state row for each participant of its
\* conversation once the handler that stored it has returned
C39_RestObeysEpochRule ==
    \A m \in messages :
        /\ m.conversation_id \in GroupIds =>
               /\ m.group_epoch # NoEpoch
               /\ m.group_epoch = groups[m.conversation_id]
        /\ (\A r \in Rest : pc[r] = "idle") =>
               \A u \in Accounts :
                   <<m.conversation_id, u>> \in conversation_participants =>
                       Cardinality({s \in message_user_state :
                                       s.message_id = m.id /\ s.user_id = u}) = 1

\* ---- allow_incoming_message against the stale-connection sweep ---------------
\* the calls of the receive loops, also of a loop whose connection the sweep has
\* unregistered while a frame was being handled (SpecGuard)
NextGuard ==
    \/ \E w \in WS : Connect(w)
    \/ Tick
    \/ \E w \in WS : RateCall(w)
    \/ \E ws \in WS : IdleSweep(ws)

SpecGuard == Init /\ [][NextGuard]_vars

\* the step is a call of allow_incoming_message for the socket
GuardCalled(w) == Len(rate_calls'[w]) = Len(rate_calls[w]) + 1

\* "after" is "before" without a prefix of timestamps older than the cutoff
EvictedOnly(before, after, cutoff) ==
    \E k \in 0 .. Len(before) :
        /\ after = SubSeq(before, k + 1, Len(before))
        /\ \A i \in 1 .. k : before[i] < cutoff

\* C40: a denied call leaves the history of the connection as it was apart from
\* expired entries taken from its front; a call for a connection that is not
\* registered is denied and leaves the registry unchanged; the history of every
\* registered connection holds at most max_messages timestamps in non-decreasing
\* order
C40_DeniedCallsLeaveHistory ==
    /\ [][\A w \in WS : GuardCalled(w) =>
            LET call == rate_calls'[w][Len(rate_calls'[w])]
            IN /\ w \notin DOMAIN connections =>
                      /\ ~call.allowed
                      /\ UNCHANGED regVars
               /\ (w \in DOMAIN connections /\ ~call.allowed) =>
                      /\ w \in DOMAIN connections'
                      /\ EvictedOnly(connections[w].message_timestamps,
                                     connections'[w].message_timestamps,
                                     now - WS_RATE_WINDOW_SECONDS)
                      /\ UNCHANGED conversation_subscriptions]_vars
    /\ [](\A w \in DOMAIN connections :
             LET stamps == connections[w].message_timestamps
             IN /\ Len(stamps) <= MAX_WS_MESSAGES_PER_WINDOW
                /\ \A i \in 1 .. Len(stamps) - 1 : stamps[i] <= stamps[i + 1])

\* one socket was denied as unregistered; the other was denied at a full history
\* after an expired entry had been evicted by an earlier call
C40_Witness ==
    \E w, x \in WS :
        /\ w \notin DOMAIN connections
        /\ rate_calls[w] # << >>
        /\ ~rate_calls[w][Len(rate_calls[w])].allowed
        /\ x \in DOMAIN connections
        /\ Len(rate_calls[x]) > MAX_WS_MESSAGES_PER_WINDOW + 1
        /\ ~rate_calls[x][Len(rate_calls[x])].allowed
        /\ rate_calls[x][Len(rate_calls[x])].at = now
        /\ Len(connections[x].message_timestamps) = MAX_WS_MESSAGES_PER_WINDOW
        /\ connections[x].message_timestamps[1] > rate_calls[x][1].at
====
